---- MODULE Spec2Model ----
(***************************************************************************)
(* Resilience layer of the grok2api gateway: the retry / failover executor *)
(* (app/services/grok/retry.py), the model registry                        *)
(* (app/services/grok/model.py), the credential pool manager and the       *)
(* request router that binds them.                                         *)
(***************************************************************************)
EXTENDS Integers, Sequences, FiniteSets, TLC

VARIABLES
    cfg,        \* process-wide configuration read through get_config
    ctx,        \* RetryContext of the retry_on_status call in progress
    pc,         \* position of the retry_on_status call
    calls,      \* number of invocations of the wrapped operation
    hist,       \* outcome of every invocation so far, oldest first
    cbs,        \* arguments of every on_retry call so far, oldest first
    result,     \* what retry_on_status handed to its caller
    slept,      \* the backoff delays slept so far, oldest first
    bk,         \* backoff configuration, last attempt argument and delay
    reg,        \* ModelService.ALIASES and ModelService._map as loaded
    q,          \* the last ModelService call: operation, argument, outcome
    pools,      \* the manager's in-memory pools map
    snapshot,   \* the snapshot persisted in Storage
    lock,       \* holder of the manager's serializing lock, if any
    tasks,      \* the concurrent tasks and the operation each is in
    ret,        \* what the manager call that just ended returned
    rt,         \* the router's state for the request in progress
    slock,      \* holder of Storage's named lock tokens_save, if any
    au,         \* app_key, api_key, the key manager's keys, the last response
    bulk,       \* the bulk administrative operation in progress
    conf,       \* the stored configuration and the last settings request
    mw,         \* the response middleware: the request in progress, what it recorded
    now         \* the clock: one tick per mutation

retryVars == <<cfg, ctx, pc, calls, hist, cbs, result, slept>>
regVars == <<reg, q>>
poolVars == <<pools, snapshot, lock, tasks, ret, rt, now>>
extVars == <<bulk, conf, mw>>
admVars == <<slock, au, bulk, conf, mw>>
vars == <<cfg, ctx, pc, calls, hist, cbs, result, slept, bk, reg, q,
          pools, snapshot, lock, tasks, ret, rt, now, slock, au, bulk, conf, mw>>

(***************************************************************************)
(* Bounds of the model.                                                    *)
(***************************************************************************)
MaxRetryBound == 3
MaxAttemptArg == 6
MaxTime == 2

(***************************************************************************)
(* Optional values: Python's None is the empty sequence.                   *)
(***************************************************************************)
None == <<>>
Some(x) == <<x>>
IsNone(o) == o = <<>>
The(o) == o[1]

(***************************************************************************)
(* Strings are sequences of characters, so that lower() and the substring  *)
(* test of _is_network_error are computed, not assumed.                    *)
(***************************************************************************)
UpperToLower ==
    [c \in {"A","B","C","D","E","F","G","H","I","J","K","L","M","N","O","P","Q",
            "R","S","T","U","V","W","X","Y","Z"} |->
        CASE c = "A" -> "a" [] c = "B" -> "b" [] c = "C" -> "c" [] c = "D" -> "d"
          [] c = "E" -> "e" [] c = "F" -> "f" [] c = "G" -> "g" [] c = "H" -> "h"
          [] c = "I" -> "i" [] c = "J" -> "j" [] c = "K" -> "k" [] c = "L" -> "l"
          [] c = "M" -> "m" [] c = "N" -> "n" [] c = "O" -> "o" [] c = "P" -> "p"
          [] c = "Q" -> "q" [] c = "R" -> "r" [] c = "S" -> "s" [] c = "T" -> "t"
          [] c = "U" -> "u" [] c = "V" -> "v" [] c = "W" -> "w" [] c = "X" -> "x"
          [] c = "Y" -> "y" [] c = "Z" -> "z"]

Lower(s) ==
    [i \in 1..Len(s) |-> IF s[i] \in DOMAIN UpperToLower THEN UpperToLower[s[i]] ELSE s[i]]

Contains(s, k) ==
    \E i \in 1..(Len(s) - Len(k) + 1) : SubSeq(s, i, i + Len(k) - 1) = k

(***************************************************************************)
(* RetryConfig.get_network_error_keywords                                  *)
(***************************************************************************)
NetworkErrorKeywords ==
    { <<"c","o","n","n","e","c","t","i","o","n"," ","r","e","s","e","t">>,
      <<"r","e","c","v"," ","f","a","i","l","u","r","e">>,
      <<"c","o","n","n","e","c","t","i","o","n"," ","a","b","o","r","t","e","d">>,
      <<"c","o","n","n","e","c","t","i","o","n"," ","r","e","f","u","s","e","d">>,
      <<"c","o","n","n","e","c","t","i","o","n"," ","c","l","o","s","e","d">>,
      <<"c","o","n","n","e","c","t","i","o","n"," ","e","r","r","o","r">>,
      <<"t","i","m","e","d"," ","o","u","t">>,
      <<"t","i","m","e","o","u","t">>,
      <<"n","e","t","w","o","r","k"," ","i","s"," ","u","n","r","e","a","c","h","a","b","l","e">>,
      <<"b","r","o","k","e","n"," ","p","i","p","e">>,
      <<"t","l","s">>,
      <<"s","s","l">>,
      <<"e","o","f">>,
      <<"c","u","r","l">> }

(***************************************************************************)
(* The failures the wrapped operation can raise.  cls is the exception     *)
(* class, details the UpstreamException details dict (None when absent or  *)
(* empty), text is str(e).                                                 *)
(***************************************************************************)
Details(status, error) == Some([status |-> status, error |-> error])

ERateLimited ==
    [cls |-> "UpstreamException", details |-> Details(Some(429), None),
     text |-> <<"4","2","9">>]
EAuthInvalid ==
    [cls |-> "UpstreamException", details |-> Details(Some(401), None),
     text |-> <<"4","0","1">>]
EServerError ==
    [cls |-> "UpstreamException",
     details |-> Details(Some(500), Some(<<"g","a","t","e","w","a","y"," ","t","i","m","e","o","u","t">>)),
     text |-> <<"5","0","0">>]
ENetMessage ==
    [cls |-> "UpstreamException",
     details |-> Details(None, Some(<<"R","e","a","d"," ","T","i","m","e","o","u","t">>)),
     text |-> <<"u","p","s","t","r","e","a","m">>]
ENetKind ==
    [cls |-> "TimeoutError", details |-> None, text |-> <<>>]
EOther ==
    [cls |-> "ValueError", details |-> None, text |-> <<"b","a","d"," ","i","n","p","u","t">>]

Errors == {ERateLimited, EAuthInvalid, EServerError, ENetMessage, ENetKind, EOther}

Ok == [cls |-> "ok", details |-> None, text |-> <<>>]

(***************************************************************************)
(* retry.py                                                                *)
(***************************************************************************)
\* the default status extractor of retry_on_status
extract_status(e) ==
    IF e.cls = "UpstreamException"
    THEN IF IsNone(e.details) THEN None ELSE The(e.details).status
    ELSE None

\* a bug the message could have: details["error"] is not looked at
_get_error_message_StrOnly(e) == e.text

_get_error_message(e) ==
    IF e.cls = "UpstreamException" /\ ~IsNone(e.details)
       /\ ~IsNone(The(e.details).error) /\ The(The(e.details).error) # <<>>
    THEN The(The(e.details).error)
    ELSE e.text

\* a bug the keyword test could have: the message is not lower-cased
_is_network_error_CaseSensitive(e) ==
    \/ e.cls \in {"TimeoutError", "ConnectionError", "OSError"}
    \/ LET msg == _get_error_message(e)
       IN  msg # <<>> /\ \E k \in NetworkErrorKeywords : Contains(msg, k)

_is_network_error(e) ==
    \/ e.cls \in {"TimeoutError", "ConnectionError", "OSError"}
    \/ LET msg == Lower(_get_error_message(e))
       IN  msg # <<>> /\ \E k \in NetworkErrorKeywords : Contains(msg, k)

(***************************************************************************)
(* RetryConfig.get_backoff_delay, over the backoff settings b.             *)
(***************************************************************************)
Max(a, b) == IF a >= b THEN a ELSE b
Min(a, b) == IF a <= b THEN a ELSE b

RECURSIVE Pow(_, _)
Pow(x, n) == IF n <= 0 THEN 1 ELSE x * Pow(x, n - 1)

\* a bug the delay could have: the settings are used as configured, with no
\* lower limits
get_backoff_delay_NoClamp(b, attempt) ==
    LET max_delay == Max(0, b.max)
        steps == Max(0, attempt - 1)
        delay == b.base * Pow(b.factor, steps)
    IN  IF max_delay > 0 THEN Min(delay, max_delay) ELSE delay

\* a bug the delay could have: the exponent is the attempt, not attempt - 1
get_backoff_delay_OffByOne(b, attempt) ==
    LET base == Max(0, b.base)
        factor == Max(1, b.factor)
        max_delay == Max(0, b.max)
        steps == Max(0, attempt)
        delay == base * Pow(factor, steps)
    IN  IF max_delay > 0 THEN Min(delay, max_delay) ELSE delay

get_backoff_delay(b, attempt) ==
    LET base == Max(0, b.base)
        factor == Max(1, b.factor)
        max_delay == Max(0, b.max)
        steps == Max(0, attempt - 1)
        delay == base * Pow(factor, steps)
    IN  IF max_delay > 0 THEN Min(delay, max_delay) ELSE delay

\* the defaults of get_retry_backoff_base / _factor / _max
DefaultBackoff == [base |-> 1, factor |-> 2, max |-> 30]

\* RetryContext.__init__
RetryContext(c) ==
    [attempt |-> 0, max_retry |-> c.max_retry, retry_codes |-> c.retry_codes,
     last_error |-> None, last_status |-> None]

\* a bug should_retry could have: the limits are read from the configuration
\* of the moment
should_retry_LiveConfig(x, status_code) ==
    x.attempt < cfg.max_retry /\ status_code \in cfg.retry_codes

should_retry(x, status_code) ==
    x.attempt < x.max_retry /\ status_code \in x.retry_codes

\* a bug record_error could have: the attempt counter is not advanced
record_error_NoIncrement(x, status_code, error) ==
    [x EXCEPT !.last_status = Some(status_code), !.last_error = Some(error)]

record_error(x, status_code, error) ==
    [x EXCEPT !.last_status = Some(status_code), !.last_error = Some(error),
              !.attempt = @ + 1]

\* a bug the re-raise could have: the failure kept in the context, which is
\* one of an earlier attempt when the present one was not recorded
Reraise_LastError(x, e) == IF IsNone(x.last_error) THEN e ELSE The(x.last_error)

\* raise: the exception being handled is raised again
Reraise(x, e) == e

\* a bug the callback wiring could have: the status is not passed on
OnRetryArgs_StatusZero(attempt, status_code, e) ==
    [attempt |-> attempt, status |-> 0, error |-> e]

\* on_retry(ctx.attempt, status_code, e)
OnRetryArgs(attempt, status_code, e) ==
    [attempt |-> attempt, status |-> status_code, error |-> e]

\* a bug the except block could have: on_retry is called before the attempt
\* counter is advanced
HandleFailure_CallbackBeforeIncrement(x, c, b, e) ==
    LET status_code == extract_status(e) IN
    IF IsNone(status_code)
    THEN IF c.retry_on_network_error /\ _is_network_error(e)
         THEN LET y == record_error(x, 0, e) IN
              IF y.attempt <= y.max_retry
              THEN [ctx |-> y, retry |-> TRUE, delay |-> get_backoff_delay(b, y.attempt),
                    cb |-> Some(OnRetryArgs(x.attempt, 0, e))]
              ELSE [ctx |-> y, retry |-> FALSE, delay |-> 0, cb |-> None]
         ELSE [ctx |-> x, retry |-> FALSE, delay |-> 0, cb |-> None]
    ELSE LET y == record_error(x, The(status_code), e) IN
         IF should_retry(y, The(status_code))
         THEN [ctx |-> y, retry |-> TRUE, delay |-> get_backoff_delay(b, y.attempt),
               cb |-> Some(OnRetryArgs(x.attempt, The(status_code), e))]
         ELSE [ctx |-> y, retry |-> FALSE, delay |-> 0, cb |-> None]

\* The except block of retry_on_status, from the failure e of one invocation
\* up to the next suspension (the backoff sleep) or the re-raise: the new
\* context, whether the call goes on, and the on_retry arguments if called.
HandleFailure(x, c, b, e) ==
    LET status_code == extract_status(e) IN
    IF IsNone(status_code)
    THEN IF c.retry_on_network_error /\ _is_network_error(e)
         THEN LET y == record_error(x, 0, e) IN
              IF y.attempt <= y.max_retry
              THEN [ctx |-> y, retry |-> TRUE, delay |-> get_backoff_delay(b, y.attempt),
                    cb |-> Some(OnRetryArgs(y.attempt, 0, e))]
              ELSE [ctx |-> y, retry |-> FALSE, delay |-> 0, cb |-> None]
         ELSE [ctx |-> x, retry |-> FALSE, delay |-> 0, cb |-> None]
    ELSE LET y == record_error(x, The(status_code), e) IN
         IF should_retry(y, The(status_code))
         THEN [ctx |-> y, retry |-> TRUE, delay |-> get_backoff_delay(b, y.attempt),
               cb |-> Some(OnRetryArgs(y.attempt, The(status_code), e))]
         ELSE [ctx |-> y, retry |-> FALSE, delay |-> 0, cb |-> None]

\* while ctx.attempt <= ctx.max_retry
LoopGuard(x) == x.attempt <= x.max_retry

(***************************************************************************)
(* model.py: the model registry.  A raw model item is a record of the      *)
(* JSON fields the code reads; an absent tier is None.                     *)
(***************************************************************************)
Item(id, grok_model, model_mode, tier) ==
    [id |-> id, grok_model |-> grok_model, model_mode |-> model_mode, tier |-> tier]

DEFAULT_ALIASES == [a \in {"grok-imagine"} |-> "grok-imagine-1.0"]

DEFAULT_MODELS ==
    << Item("grok-3", "grok-3", "MODEL_MODE_AUTO", Some("basic")),
       Item("grok-3-fast", "grok-3", "MODEL_MODE_FAST", Some("basic")),
       Item("grok-4", "grok-4", "MODEL_MODE_AUTO", Some("basic")),
       Item("grok-4-mini", "grok-4-mini-thinking-tahoe", "MODEL_MODE_GROK_4_MINI_THINKING", Some("basic")),
       Item("grok-4-fast", "grok-4", "MODEL_MODE_FAST", Some("basic")),
       Item("grok-4-fast-expert", "grok-4-mini-thinking-tahoe", "MODEL_MODE_EXPERT", Some("basic")),
       Item("grok-4-expert", "grok-4", "MODEL_MODE_EXPERT", Some("basic")),
       Item("grok-4-heavy", "grok-4", "MODEL_MODE_HEAVY", Some("super")),
       Item("grok-4.1", "grok-4-1-thinking-1129", "MODEL_MODE_AUTO", Some("basic")),
       Item("grok-4.1-thinking", "grok-4-1-thinking-1129", "MODEL_MODE_GROK_4_1_THINKING", Some("basic")),
       Item("grok-4.20-beta", "grok-420", "MODEL_MODE_GROK_420", Some("basic")),
       Item("grok-imagine-1.0", "grok-3", "MODEL_MODE_FAST", Some("basic")),
       Item("grok-imagine-1.0-video", "grok-3", "MODEL_MODE_FAST", Some("basic")),
       Item("grok-imagine-0.9", "grok-3", "MODEL_MODE_FAST", Some("basic")) >>

\* Tier(value), or the default when value is no member of the enum
_safe_enum_Tier(value, default) ==
    IF ~IsNone(value) /\ The(value) \in {"basic", "super"} THEN The(value) ELSE default

_build_models(raw_models) ==
    [i \in 1..Len(raw_models) |->
        [model_id |-> raw_models[i].id,
         grok_model |-> raw_models[i].grok_model,
         model_mode |-> raw_models[i].model_mode,
         tier |-> _safe_enum_Tier(raw_models[i].tier, "basic")]]

\* The shared/models.json files the service may find: None when the file
\* cannot be read or parsed, otherwise its aliases and models.
NoAliases == [a \in {} |-> ""]

ModelFiles ==
    { None,
      Some([aliases |-> NoAliases, models |-> <<>>]),
      Some([aliases |-> [a \in {"grok-latest", "heavy"} |->
                            IF a = "heavy" THEN "grok-latest" ELSE "grok-4-heavy"],
            models |-> << Item("grok-3", "grok-3", "MODEL_MODE_AUTO", Some("basic")),
                          Item("grok-4-heavy", "grok-4", "MODEL_MODE_HEAVY", Some("super")),
                          Item("grok-5", "grok-5", "MODEL_MODE_AUTO", Some("SUPER")),
                          Item("grok-6", "grok-6", "MODEL_MODE_AUTO", None) >>]),
      Some([aliases |-> [a \in {"grok-3"} |-> "grok-4-heavy"],
            models |-> << Item("grok-3", "grok-3", "MODEL_MODE_AUTO", Some("basic")),
                          Item("grok-4-heavy", "grok-4", "MODEL_MODE_HEAVY", Some("super")),
                          Item("grok-7", "grok-7", "MODEL_MODE_AUTO", Some("super")),
                          Item("grok-7", "grok-7", "MODEL_MODE_FAST", Some("basic")) >>]) }

_load_model_data(file) ==
    IF IsNone(file) \/ The(file).models = <<>>
    THEN [aliases |-> DEFAULT_ALIASES, models |-> _build_models(DEFAULT_MODELS)]
    ELSE [aliases |-> The(file).aliases, models |-> _build_models(The(file).models)]

\* {m.model_id: m for m in MODELS}: a later item replaces an earlier one
ModelMap(models) ==
    [id \in {models[i].model_id : i \in 1..Len(models)} |->
        models[CHOOSE i \in 1..Len(models) :
                  /\ models[i].model_id = id
                  /\ \A j \in 1..Len(models) : models[j].model_id = id => j <= i]]

\* the module initialisation at the end of model.py
LoadRegistry(file) ==
    LET d == _load_model_data(file)
    IN  [aliases |-> d.aliases, map |-> ModelMap(d.models)]

normalize(r, model_id) ==
    IF model_id \in DOMAIN r.aliases THEN r.aliases[model_id] ELSE model_id

get(r, model_id) ==
    LET id == normalize(r, model_id)
    IN  IF id \in DOMAIN r.map THEN Some(r.map[id]) ELSE None

valid(r, model_id) == normalize(r, model_id) \in DOMAIN r.map

\* a bug to_grok could have: an unknown identifier gets default parameters
to_grok_NeverRaises(r, model_id) ==
    LET model == get(r, model_id)
    IN  IF IsNone(model) THEN <<"grok-3", "MODEL_MODE_AUTO">>
        ELSE <<The(model).grok_model, The(model).model_mode>>

to_grok(r, model_id) ==
    LET model == get(r, model_id)
    IN  IF IsNone(model) THEN "ValidationException"
        ELSE <<The(model).grok_model, The(model).model_mode>>

\* a bug pool_for_model could have: the alias table is not applied
pool_for_model_NoNormalize(r, model_id) ==
    IF model_id \in DOMAIN r.map /\ r.map[model_id].tier = "super"
    THEN "ssoSuper" ELSE "ssoBasic"

pool_for_model(r, model_id) ==
    LET model == get(r, model_id)
    IN  IF ~IsNone(model) /\ The(model).tier = "super" THEN "ssoSuper" ELSE "ssoBasic"

\* the model identifiers a request may carry
RequestModelIds ==
    {DEFAULT_MODELS[i].id : i \in 1..Len(DEFAULT_MODELS)}
        \cup {"grok-imagine", "grok-latest", "heavy", "grok-5", "grok-6", "grok-7",
              "gpt-4", ""}

RegistryIdle ==
    /\ reg = LoadRegistry(None)
    /\ q = None

(***************************************************************************)
(* The credential pool manager (app/services/token, used by admin.py).     *)
(* A pools map takes a pool name to the ordered list of its credential     *)
(* records.                                                                *)
(***************************************************************************)
PoolNames == <<"ssoBasic", "ssoSuper">>
Pools == {PoolNames[k] : k \in 1..Len(PoolNames)}
Tokens == {"T1", "T2"}
Outcomes == {"Success", "AuthInvalid", "RateLimited", "ForbiddenAmbiguous", "QuotaZero"}

\* a probe promotes a COOLING credential only this long after it cooled
CooldownWindow == 2

Credential(tok, t) ==
    [token |-> tok, status |-> "ACTIVE", quota |-> -1, created_at |-> t,
     tags |-> {}, note |-> "",
     last_fail_at |-> None, last_fail_reason |-> None, last_asset_clear_at |-> None]

EmptyPools == [p \in Pools |-> <<>>]

Holds(P, p, tok) == \E i \in 1..Len(P[p]) : P[p][i].token = tok
Exists(P, tok) == \E p \in Pools : Holds(P, p, tok)

\* the first pool, in scan order, that holds tok
FirstPool(P, tok) ==
    PoolNames[CHOOSE k \in 1..Len(PoolNames) :
        /\ Holds(P, PoolNames[k], tok)
        /\ \A j \in 1..(k - 1) : ~Holds(P, PoolNames[j], tok)]

IndexOf(s, tok) ==
    CHOOSE i \in 1..Len(s) : s[i].token = tok /\ \A j \in 1..(i - 1) : s[j].token # tok

Lookup(P, tok) == P[FirstPool(P, tok)][IndexOf(P[FirstPool(P, tok)], tok)]

Replace(P, tok, rec) ==
    LET p == FirstPool(P, tok) IN [P EXCEPT ![p][IndexOf(P[p], tok)] = rec]

RemoveAt(s, i) == SubSeq(s, 1, i - 1) \o SubSeq(s, i + 1, Len(s))

\* a bug add could have: only the target pool is searched for the token
AddOp_OwnPoolOnly(P, tok, p, t) ==
    IF Holds(P, p, tok)
    THEN [pools |-> P, result |-> "DuplicateCredential"]
    ELSE [pools |-> [P EXCEPT ![p] = Append(@, Credential(tok, t))], result |-> "ok"]

\* add(rawToken, poolName)
AddOp(P, tok, p, t) ==
    IF Exists(P, tok)
    THEN [pools |-> P, result |-> "DuplicateCredential"]
    ELSE [pools |-> [P EXCEPT ![p] = Append(@, Credential(tok, t))], result |-> "ok"]

\* remove(rawToken)
RemoveOp(P, tok) ==
    IF Exists(P, tok)
    THEN LET p == FirstPool(P, tok)
         IN  [pools |-> [P EXCEPT ![p] = RemoveAt(@, IndexOf(P[p], tok))], result |-> "found"]
    ELSE [pools |-> P, result |-> "absent"]

\* a bug recordOutcome could have: an invalid credential is only cooled
StatusAfter_AuthCools(status, outcome) ==
    CASE outcome \in {"AuthInvalid", "RateLimited"} /\ status = "ACTIVE" -> "COOLING"
      [] outcome = "ForbiddenAmbiguous" /\ status = "ACTIVE" -> "DISABLED"
      [] outcome = "QuotaZero" /\ status \in {"ACTIVE", "COOLING"} -> "EXHAUSTED"
      [] OTHER -> status

\* the state machine of section 4.1, for an outcome reported against a record
StatusAfter(status, outcome) ==
    CASE outcome = "AuthInvalid" /\ status = "ACTIVE" -> "EXPIRED"
      [] outcome = "RateLimited" /\ status = "ACTIVE" -> "COOLING"
      [] outcome = "ForbiddenAmbiguous" /\ status = "ACTIVE" -> "DISABLED"
      [] outcome = "QuotaZero" /\ status \in {"ACTIVE", "COOLING"} -> "EXHAUSTED"
      [] OTHER -> status

Recorded(rec, outcome, t) ==
    IF outcome = "Success"
    THEN [rec EXCEPT !.quota = IF @ > 0 THEN @ - 1 ELSE @]
    ELSE [rec EXCEPT !.status = StatusAfter(@, outcome),
                     !.last_fail_at = Some(t), !.last_fail_reason = Some(outcome)]

\* recordOutcome(rawToken, outcome)
RecordOutcomeOp(P, tok, outcome, t) ==
    IF Exists(P, tok)
    THEN [pools |-> Replace(P, tok, Recorded(Lookup(P, tok), outcome, t)), result |-> "ok"]
    ELSE [pools |-> P, result |-> "absent"]

CooledDown(rec, t) ==
    IsNone(rec.last_fail_at) \/ t - The(rec.last_fail_at) >= CooldownWindow

\* a bug the probe could have: any credential found with quota is revived
Probed_Revives(rec, n, t) ==
    [rec EXCEPT !.quota = n,
                !.status =
                    CASE n = 0 /\ @ \in {"ACTIVE", "COOLING"} -> "EXHAUSTED"
                      [] n > 0 /\ @ # "COOLING" -> "ACTIVE"
                      [] n > 0 /\ @ = "COOLING" /\ CooledDown(rec, t) -> "ACTIVE"
                      [] OTHER -> @]

\* the record after a successful quota probe that returned n at time t
Probed(rec, n, t) ==
    [rec EXCEPT !.quota = n,
                !.status =
                    CASE n = 0 /\ @ \in {"ACTIVE", "COOLING"} -> "EXHAUSTED"
                      [] n > 0 /\ @ = "EXHAUSTED" -> "ACTIVE"
                      [] n > 0 /\ @ = "COOLING" /\ CooledDown(rec, t) -> "ACTIVE"
                      [] OTHER -> @]

\* probeUsage(rawToken, modelId, consumeOnFail); probe is the upstream's
\* answer: a quota, or a failure of some kind
ProbeUsageOp(P, tok, probe, consumeOnFail, t) ==
    IF ~Exists(P, tok) THEN [pools |-> P, result |-> "absent"]
    ELSE IF probe.ok
    THEN [pools |-> Replace(P, tok, Probed(Lookup(P, tok), probe.quota, t)), result |-> "ok"]
    ELSE IF consumeOnFail
    THEN [pools |-> Replace(P, tok, Recorded(Lookup(P, tok), probe.kind, t)), result |-> "failed"]
    ELSE [pools |-> P, result |-> "failed"]

\* a bug markAssetClear could have: the credential is also reactivated
MarkAssetClearOp_Reactivates(P, tok, t) ==
    IF Exists(P, tok)
    THEN [pools |-> Replace(P, tok, [Lookup(P, tok) EXCEPT !.last_asset_clear_at = Some(t),
                                                            !.status = "ACTIVE"]),
          result |-> "ok"]
    ELSE [pools |-> P, result |-> "absent"]

\* markAssetClear(rawToken)
MarkAssetClearOp(P, tok, t) ==
    IF Exists(P, tok)
    THEN [pools |-> Replace(P, tok, [Lookup(P, tok) EXCEPT !.last_asset_clear_at = Some(t)]),
          result |-> "ok"]
    ELSE [pools |-> P, result |-> "absent"]

\* selection policy: a known positive quota ranks by its value, an unknown
\* quota (-1) below every positive one and above 0
QuotaRank(n) == IF n > 0 THEN n + 1 ELSE IF n = -1 THEN 1 ELSE 0
FailAge(rec) == IF IsNone(rec.last_fail_at) THEN -1 ELSE The(rec.last_fail_at)

Better(s, i, j) ==
    \/ QuotaRank(s[i].quota) > QuotaRank(s[j].quota)
    \/ /\ QuotaRank(s[i].quota) = QuotaRank(s[j].quota)
       /\ \/ FailAge(s[i]) < FailAge(s[j])
          \/ FailAge(s[i]) = FailAge(s[j]) /\ i < j

\* a bug select could have: every status but the terminal ones qualifies
Qualifies_NotTerminal(rec, excluding) ==
    rec.status \notin {"DISABLED", "EXPIRED"} /\ rec.token \notin excluding

Qualifies(rec, excluding) == rec.status = "ACTIVE" /\ rec.token \notin excluding

\* select(poolName, excluding): the token chosen, or None for PoolExhausted
SelectOp(P, p, excluding) ==
    LET s == P[p]
        cand == {i \in 1..Len(s) : Qualifies(s[i], excluding)}
    IN  IF cand = {} THEN None
        ELSE Some(s[CHOOSE i \in cand : \A j \in cand \ {i} : Better(s, i, j)].token)


\* the snapshots the manager may load from Storage when it is constructed
Loaded(tok, status, quota, failed) ==
    [Credential(tok, 0) EXCEPT !.status = status, !.quota = quota,
        !.last_fail_at = IF failed THEN Some(0) ELSE None,
        !.last_fail_reason = IF failed THEN Some("RateLimited") ELSE None]

InitialSnapshots ==
    { EmptyPools,
      [p \in Pools |-> IF p = "ssoBasic"
                       THEN <<Loaded("T1", "ACTIVE", 5, FALSE), Loaded("T2", "EXHAUSTED", 0, FALSE)>>
                       ELSE <<>>],
      [p \in Pools |-> IF p = "ssoBasic"
                       THEN <<Loaded("T1", "COOLING", -1, TRUE)>>
                       ELSE <<Loaded("T2", "ACTIVE", -1, FALSE)>>] }

\* the answers of the upstream quota probe
ProbeQuotas == {0, 2}
ProbeAnswers ==
    [ok : {TRUE}, quota : ProbeQuotas, kind : {""}]
        \cup [ok : {FALSE}, quota : {-1}, kind : {"RateLimited"}]

\* one request-handling or administrative task
IdleTask ==
    [pc |-> "idle", op |-> "", tok |-> "", pending |-> {}, met |-> {}, data |-> None]

\* what a call returned
NoRet ==
    [op |-> "", tok |-> "", pool |-> "", outcome |-> "", excl |-> {},
     result |-> "", overlap |-> FALSE]

Tasks == {"a", "b"}

\* the router between requests
RouterIdle ==
    [phase |-> "idle", model |-> "", pool |-> "", cur |-> "", excluded |-> {},
     tried |-> <<>>, final |-> None]

(***************************************************************************)
(* Authentication (auth.py).  A request carries a Bearer credential or     *)
(* none; the configuration holds app.app_key and app.api_key, the key      *)
(* manager a list of keys, each active or not.                             *)
(***************************************************************************)
AppKeys == {"", "k1"}
ApiKeys == {"", "g"}
ManagedKeys == {"m1", "m2"}
Bearers == {None} \cup {Some(b) : b \in {"k1", "g", "m1", "m2", "x"}}

NoResp == [fn |-> "", auth |-> None, status |-> 0, detail |-> "", key_info |-> None]

AuthIdle == [app_key |-> "", api_key |-> "", keys |-> {}, resp |-> NoResp]

HTTP_401_UNAUTHORIZED == 401

Passed(key_info) == [status |-> 200, detail |-> "", key_info |-> key_info]

Unauthorized(detail) ==
    [status |-> HTTP_401_UNAUTHORIZED, detail |-> detail, key_info |-> None]

get_all_keys(a) == a.keys

\* the key manager accepts the global key and every active key of its list
validate_key(a, token) ==
    IF a.api_key # "" /\ token = a.api_key
    THEN Some([key |-> token, name |-> "admin", is_admin |-> TRUE])
    ELSE IF [key |-> token, is_active |-> TRUE] \in a.keys
         THEN Some([key |-> token, name |-> "key", is_admin |-> FALSE])
         ELSE None

verify_api_key(a, auth) ==
    IF IsNone(auth)
    THEN IF a.api_key = "" /\ get_all_keys(a) = {}
         THEN Passed(Some([key |-> "", name |-> "Anonymous", is_admin |-> TRUE]))
         ELSE Unauthorized("Missing authentication token")
    ELSE LET key_info == validate_key(a, The(auth))
         IN  IF IsNone(key_info)
             THEN Unauthorized("Invalid authentication token")
             ELSE Passed(key_info)

verify_app_key(a, auth) ==
    IF a.app_key = "" THEN Unauthorized("App key is not configured")
    ELSE IF IsNone(auth) THEN Unauthorized("Missing authentication token")
    ELSE IF The(auth) # a.app_key THEN Unauthorized("Invalid authentication token")
    ELSE Passed(None)

\* no bulk operation: nothing submitted, nothing in flight
BulkIdle ==
    [op |-> "", pc |-> "idle", setting |-> None, limit |-> 0, list |-> <<>>, next |-> 1,
     inflight |-> {}, marking |-> {}, deleted |-> {}, marked |-> {}, results |-> {},
     service |-> "none", raised |-> 0, resp |-> 0]

\* the keys of the configuration that the settings handler writes
ConfKeys ==
    {"app.admin_username", "app.app_key", "app.api_key", "cache.limit_mb",
     "grok.filter_tags", "grok.max_retry"}

\* nothing stored, no settings request made
ConfIdle == [store |-> [k \in ConfKeys |-> None], req |-> None]

\* no request in the middleware, nothing recorded
MwIdle ==
    [pc |-> "idle", method |-> "", path |-> <<>>, branch |-> "", status |-> 0,
     stats |-> <<>>, logs |-> <<>>, out |-> ""]

ExtIdle ==
    /\ bulk = BulkIdle
    /\ conf = ConfIdle
    /\ mw = MwIdle

\* the administrative and authentication layer at rest
AdminIdle ==
    /\ slock = None
    /\ au = AuthIdle
    /\ ExtIdle

PoolIdle ==
    /\ pools = EmptyPools
    /\ snapshot = EmptyPools
    /\ lock = None
    /\ tasks = [t \in Tasks |-> IdleTask]
    /\ ret = NoRet
    /\ rt = RouterIdle
    /\ now = 0

(***************************************************************************)
(* State of the retry executor.                                            *)
(***************************************************************************)
RetryCodeSets == { {401, 429, 403}, {429}, {} }

Configs ==
    [max_retry : (-1)..MaxRetryBound,
     retry_codes : RetryCodeSets,
     retry_on_network_error : BOOLEAN]

InitRetry ==
    /\ cfg \in Configs
    /\ ctx = RetryContext([max_retry |-> 0, retry_codes |-> {}])
    /\ pc = "idle"
    /\ calls = 0
    /\ hist = <<>>
    /\ cbs = <<>>
    /\ result = None
    /\ slept = <<>>

\* entry of retry_on_status: the context snapshots the configuration, and
\* the loop is entered (or not)
DoStart ==
    /\ pc = "idle"
    /\ LET x == RetryContext(cfg) IN
       /\ ctx' = x
       /\ IF LoopGuard(x)
          THEN pc' = "call" /\ calls' = calls + 1 /\ result' = result
          ELSE pc' = "fell" /\ calls' = calls /\ result' = Some("NoneValue")
    /\ UNCHANGED <<cfg, hist, cbs, slept>>

\* the awaited operation returns: retry_on_status returns its value
DoOpReturns ==
    /\ pc = "call"
    /\ hist' = Append(hist, Ok)
    /\ pc' = "returned"
    /\ result' = Some("value")
    /\ UNCHANGED <<cfg, ctx, calls, cbs, slept>>

\* the awaited operation raises e
DoOpRaises(e) ==
    /\ pc = "call"
    /\ hist' = Append(hist, e)
    /\ LET h == HandleFailure(ctx, cfg, bk, e) IN
       /\ ctx' = h.ctx
       /\ IF h.retry
          THEN /\ cbs' = Append(cbs, The(h.cb))
               /\ slept' = Append(slept, h.delay)
               /\ pc' = "sleep"
               /\ result' = result
          ELSE /\ cbs' = cbs
               /\ slept' = slept
               /\ pc' = "raised"
               /\ result' = Some(Reraise(ctx, e))
    /\ UNCHANGED <<cfg, calls>>

\* the backoff sleep ends: continue, the loop guard is evaluated again
DoWake ==
    /\ pc = "sleep"
    /\ IF LoopGuard(ctx)
       THEN pc' = "call" /\ calls' = calls + 1 /\ result' = result
       ELSE pc' = "fell" /\ calls' = calls /\ result' = Some("NoneValue")
    /\ UNCHANGED <<cfg, ctx, hist, cbs, slept>>

Start == DoStart /\ UNCHANGED <<bk, regVars, poolVars, admVars>>
OpReturns == DoOpReturns /\ UNCHANGED <<bk, regVars, poolVars, admVars>>
OpRaises == \E e \in Errors : DoOpRaises(e) /\ UNCHANGED <<bk, regVars, poolVars, admVars>>
Wake == DoWake /\ UNCHANGED <<bk, regVars, poolVars, admVars>>

NextRetry == Start \/ OpReturns \/ OpRaises \/ Wake

Init == InitRetry /\ bk = DefaultBackoff /\ RegistryIdle /\ PoolIdle /\ AdminIdle

Spec == Init /\ [][NextRetry]_vars

\* the event loop resumes a sleeping call, and the awaited operation ends
FairSpec == Spec /\ WF_vars(NextRetry)

Terminated == pc \in {"returned", "raised", "fell"}

(***************************************************************************)
(* C1: for max_retry >= 0, whatever the outcomes of the operation, one     *)
(* call of retry_on_status invokes it at most max_retry + 1 times, and     *)
(* then ends with the operation's value or with a raised failure.          *)
(***************************************************************************)
C1_State ==
    (pc # "idle" /\ ctx.max_retry >= 0) =>
        /\ calls <= ctx.max_retry + 1
        /\ calls = Len(hist) + (IF pc = "call" THEN 1 ELSE 0)
        /\ pc # "fell"
        /\ (pc = "returned" => result = Some("value"))
        /\ (pc = "raised" => result \in {Some(e) : e \in Errors})

C1_AtMostMaxRetryPlusOne == []C1_State /\ <>Terminated

C1_Witness ==
    /\ pc = "raised" /\ ctx.max_retry = 3 /\ calls = 4
    /\ \E i, j \in 1..Len(hist) : extract_status(hist[i]) # extract_status(hist[j])

(***************************************************************************)
(* C2: an operation that always fails with a status in retry_codes is      *)
(* invoked exactly max_retry + 1 times, and the failure handed to the      *)
(* caller carries that status.                                             *)
(***************************************************************************)
AlwaysFailedWith(s) ==
    /\ hist # <<>>
    /\ \A i \in 1..Len(hist) : extract_status(hist[i]) = Some(s)

C2_AlwaysFailingStatus ==
    \A s \in {401, 429, 403, 500} :
        (Terminated /\ ctx.max_retry >= 0 /\ s \in ctx.retry_codes /\ AlwaysFailedWith(s)) =>
            /\ calls = ctx.max_retry + 1
            /\ pc = "raised"
            /\ extract_status(The(result)) = Some(s)

(***************************************************************************)
(* C3: with retry_on_network_error on, an operation that always fails      *)
(* without a status and with a network message or kind is retried exactly  *)
(* max_retry times (max_retry + 1 invocations), then its last failure is   *)
(* raised.                                                                 *)
(***************************************************************************)
NetworkFailures == {ENetMessage, ENetKind}

C3_NetworkErrorRetried ==
    (/\ Terminated /\ ctx.max_retry >= 0 /\ cfg.retry_on_network_error
     /\ hist # <<>>
     /\ \A i \in 1..Len(hist) : hist[i] \in NetworkFailures) =>
        /\ calls = ctx.max_retry + 1
        /\ Len(cbs) = ctx.max_retry
        /\ \A i \in 1..Len(cbs) : cbs[i].status = 0 /\ cbs[i].attempt = i
        /\ pc = "raised"
        /\ result = Some(hist[Len(hist)])

C3_Witness ==
    /\ pc = "raised" /\ ctx.max_retry = 2 /\ calls = 3 /\ Len(cbs) = 2
    /\ hist = <<ENetMessage, ENetMessage, ENetMessage>>

(***************************************************************************)
(* The backoff delay as a function of its settings.                        *)
(***************************************************************************)
BackoffBases == {-1, 0, 1, 3}
BackoffFactors == {0, 1, 2, 3}
BackoffMaxes == {-5, 0, 10, 30}

RetryIdle ==
    /\ cfg = [max_retry |-> 1, retry_codes |-> {401, 429, 403}, retry_on_network_error |-> TRUE]
    /\ ctx = RetryContext([max_retry |-> 0, retry_codes |-> {}])
    /\ pc = "idle"
    /\ calls = 0
    /\ hist = <<>>
    /\ cbs = <<>>
    /\ result = None
    /\ slept = <<>>

InitBackoff ==
    /\ bk \in [base : BackoffBases, factor : BackoffFactors, max : BackoffMaxes,
               attempt : {0}, delay : {None}]
    /\ RetryIdle
    /\ RegistryIdle
    /\ PoolIdle
    /\ AdminIdle

\* one evaluation of RetryConfig.get_backoff_delay(attempt)
BackoffCall ==
    /\ \E a \in (-1)..MaxAttemptArg :
          bk' = [bk EXCEPT !.attempt = a, !.delay = Some(get_backoff_delay(bk, a))]
    /\ UNCHANGED <<retryVars, regVars, poolVars, admVars>>

NextBackoff == BackoffCall

SpecBackoff == InitBackoff /\ [][NextBackoff]_vars

(***************************************************************************)
(* C4 as stated: for every attempt >= 1 the delay is                       *)
(* min(base * factor^(attempt-1), max).                                    *)
(***************************************************************************)
StatedDelay(b, attempt) == Min(b.base * Pow(b.factor, attempt - 1), b.max)

C4_Stated ==
    (~IsNone(bk.delay) /\ bk.attempt >= 1) => The(bk.delay) = StatedDelay(bk, bk.attempt)

(***************************************************************************)
(* C4 amended: the same, for settings with base >= 0, factor >= 1 and      *)
(* max > 0; base=1, factor=2, max=30 gives 1, 2, 4, 8, 16, 30 for the      *)
(* attempts 1..6.                                                          *)
(***************************************************************************)
C4_BackoffDelay ==
    (~IsNone(bk.delay) /\ bk.attempt >= 1 /\ bk.base >= 0 /\ bk.factor >= 1 /\ bk.max > 0) =>
        /\ The(bk.delay) = StatedDelay(bk, bk.attempt)
        /\ ([base |-> bk.base, factor |-> bk.factor, max |-> bk.max] = DefaultBackoff
              /\ bk.attempt <= 6
              => The(bk.delay) = <<1, 2, 4, 8, 16, 30>>[bk.attempt])

C4_Witness ==
    /\ bk.base = 1 /\ bk.factor = 2 /\ bk.max = 30 /\ bk.attempt = 6
    /\ bk.delay = Some(30)

(***************************************************************************)
(* The model registry as a state machine: loaded once, then queried.       *)
(***************************************************************************)
InitModel ==
    /\ reg \in {LoadRegistry(f) : f \in ModelFiles}
    /\ q = None
    /\ RetryIdle
    /\ bk = DefaultBackoff
    /\ PoolIdle
    /\ AdminIdle

QueryOf(op, m, out) == Some([op |-> op, id |-> m, out |-> out])

CallNormalize ==
    /\ \E m \in RequestModelIds : q' = QueryOf("normalize", m, normalize(reg, m))
    /\ UNCHANGED <<reg, retryVars, bk, poolVars, admVars>>

CallGet ==
    /\ \E m \in RequestModelIds : q' = QueryOf("get", m, get(reg, m))
    /\ UNCHANGED <<reg, retryVars, bk, poolVars, admVars>>

CallValid ==
    /\ \E m \in RequestModelIds : q' = QueryOf("valid", m, valid(reg, m))
    /\ UNCHANGED <<reg, retryVars, bk, poolVars, admVars>>

CallToGrok ==
    /\ \E m \in RequestModelIds : q' = QueryOf("to_grok", m, to_grok(reg, m))
    /\ UNCHANGED <<reg, retryVars, bk, poolVars, admVars>>

CallPoolForModel ==
    /\ \E m \in RequestModelIds : q' = QueryOf("pool_for_model", m, pool_for_model(reg, m))
    /\ UNCHANGED <<reg, retryVars, bk, poolVars, admVars>>

NextModel == CallNormalize \/ CallGet \/ CallValid \/ CallToGrok \/ CallPoolForModel

SpecModel == InitModel /\ [][NextModel]_vars

(***************************************************************************)
(* C10: pool_for_model gives the super pool (ssoSuper) exactly for the     *)
(* identifiers whose model, after alias normalization, has tier super, and *)
(* the basic pool (ssoBasic) for every basic-tier model; grok-4-heavy of   *)
(* the built-in registry resolves to the super pool.                       *)
(***************************************************************************)
Canonical(m) == IF m \in DOMAIN reg.aliases THEN reg.aliases[m] ELSE m
TierOf(m) == IF Canonical(m) \in DOMAIN reg.map THEN reg.map[Canonical(m)].tier ELSE "none"

C10_PoolForModel ==
    (~IsNone(q) /\ The(q).op = "pool_for_model") =>
        LET m == The(q).id
            out == The(q).out
        IN  /\ out \in {"ssoSuper", "ssoBasic"}
            /\ (out = "ssoSuper" <=> TierOf(m) = "super")
            /\ (TierOf(m) = "basic" => out = "ssoBasic")
            /\ (reg = LoadRegistry(None) /\ m = "grok-4-heavy" => out = "ssoSuper")

C10_Witness ==
    /\ reg = LoadRegistry(None)
    /\ q = QueryOf("pool_for_model", "grok-4-heavy", "ssoSuper")

(***************************************************************************)
(* The pool manager under concurrent tasks.  A mutating operation waits    *)
(* for the manager's lock, changes the in-memory pools inside it, saves    *)
(* the snapshot and releases the lock; select reads without suspending.    *)
(* ret is what the step just taken returned to its caller.                 *)
(***************************************************************************)
InitPool ==
    /\ pools \in InitialSnapshots
    /\ snapshot = pools
    /\ lock = None
    /\ tasks = [t \in Tasks |-> IdleTask]
    /\ ret = NoRet
    /\ now = 0
    /\ RetryIdle
    /\ bk = DefaultBackoff
    /\ RegistryIdle
    /\ rt = RouterIdle
    /\ AdminIdle

\* a task calls a mutating operation of the manager and waits for the lock;
\* the operation and its arguments are told when it enters
Begin ==
    /\ \E t \in Tasks :
          /\ tasks[t].pc = "idle"
          /\ tasks' = [tasks EXCEPT ![t] = [IdleTask EXCEPT !.pc = "wait"]]
    /\ ret' = NoRet
    /\ UNCHANGED <<pools, snapshot, lock, now, retryVars, bk, regVars, rt, admVars>>

CanEnter(t, op) ==
    /\ tasks[t].pc = "wait"
    /\ tasks[t].op = op
    /\ lock = None

\* what a task that waits learns of the call that runs meanwhile: met is
\* the set of tokens added, and not removed again, while it has waited
Meanwhile(task, call, r) ==
    IF task.pc # "wait" THEN task
    ELSE IF call.op = "add" /\ r.result = "ok" THEN [task EXCEPT !.met = @ \cup {call.tok}]
    ELSE IF call.op = "remove" THEN [task EXCEPT !.met = @ \ {call.tok}]
    ELSE task

\* the critical section of the call of t, whose effect is r: a change is
\* applied in memory and the save is still to come
Commit(t, call, r) ==
    /\ pools' = r.pools
    /\ ret' = [call EXCEPT !.result = r.result,
                           !.overlap = (call.op = "add" /\ call.tok \in tasks[t].met)]
    /\ IF r.pools # pools
       THEN /\ now < MaxTime
            /\ now' = now + 1
            /\ lock' = Some(t)
            /\ tasks' = [u \in Tasks |->
                  IF u = t THEN [IdleTask EXCEPT !.pc = "save"]
                  ELSE Meanwhile(tasks[u], call, r)]
       ELSE /\ UNCHANGED <<now, lock>>
            /\ tasks' = [tasks EXCEPT ![t] = IdleTask]
    /\ UNCHANGED <<snapshot, retryVars, bk, regVars, rt, admVars>>

EnterAdd ==
    \E t \in Tasks, tok \in Tokens, p \in Pools :
        /\ CanEnter(t, "")
        /\ Commit(t, [NoRet EXCEPT !.op = "add", !.tok = tok, !.pool = p],
                  AddOp(pools, tok, p, now + 1))

EnterRemove ==
    \E t \in Tasks, tok \in Tokens :
        /\ CanEnter(t, "")
        /\ Commit(t, [NoRet EXCEPT !.op = "remove", !.tok = tok], RemoveOp(pools, tok))

EnterRecordOutcome ==
    \E t \in Tasks, tok \in Tokens, o \in Outcomes :
        /\ CanEnter(t, "")
        /\ Commit(t, [NoRet EXCEPT !.op = "recordOutcome", !.tok = tok, !.outcome = o],
                  RecordOutcomeOp(pools, tok, o, now + 1))

EnterProbeUsage ==
    \E t \in Tasks, tok \in Tokens, a \in ProbeAnswers, c \in BOOLEAN :
        /\ CanEnter(t, "")
        /\ Commit(t, [NoRet EXCEPT !.op = "probeUsage", !.tok = tok],
                  ProbeUsageOp(pools, tok, a, c, now + 1))

\* clear_online_cache_api, single token: the token of the request, or one
\* selected by the manager; delete_all is then awaited
ClearRequests == {None} \cup {Some(tok) : tok \in Tokens}

ClearBegin ==
    /\ \E t \in Tasks, d \in ClearRequests :
          /\ tasks[t].pc = "idle"
          /\ LET token == IF IsNone(d) THEN SelectOp(pools, "ssoBasic", {}) ELSE d IN
             IF IsNone(token)
             THEN /\ ret' = [NoRet EXCEPT !.op = "clear", !.result = "HTTP 500"]
                  /\ UNCHANGED tasks
             ELSE /\ ret' = NoRet
                  /\ tasks' = [tasks EXCEPT ![t] =
                        [IdleTask EXCEPT !.pc = "deleting", !.tok = The(token)]]
    /\ UNCHANGED <<pools, snapshot, lock, now, retryVars, bk, regVars, rt, admVars>>

\* delete_all raised
ClearFails ==
    /\ \E t \in Tasks :
          /\ tasks[t].pc = "deleting"
          /\ ret' = [NoRet EXCEPT !.op = "clear", !.tok = tasks[t].tok,
                                  !.result = "HTTP 500"]
          /\ tasks' = [tasks EXCEPT ![t] = IdleTask]
    /\ UNCHANGED <<pools, snapshot, lock, now, retryVars, bk, regVars, rt, admVars>>

\* delete_all returned: mark_asset_clear is called
BeginMarkAssetClear ==
    /\ \E t \in Tasks :
          /\ tasks[t].pc = "deleting"
          /\ tasks' = [tasks EXCEPT ![t] =
                [IdleTask EXCEPT !.pc = "wait", !.op = "markAssetClear",
                                 !.tok = tasks[t].tok]]
    /\ ret' = NoRet
    /\ UNCHANGED <<pools, snapshot, lock, now, retryVars, bk, regVars, rt, admVars>>

EnterMarkAssetClear ==
    \E t \in Tasks :
        /\ CanEnter(t, "markAssetClear")
        /\ Commit(t, [NoRet EXCEPT !.op = "markAssetClear", !.tok = tasks[t].tok],
                  MarkAssetClearOp(pools, tasks[t].tok, now + 1))

\* the snapshot is written under Storage's lock, and the manager's lock released
SaveDone ==
    /\ \E t \in Tasks :
          /\ tasks[t].pc = "save"
          /\ tasks' = [tasks EXCEPT ![t] = IdleTask]
    /\ snapshot' = pools
    /\ lock' = None
    /\ ret' = NoRet
    /\ UNCHANGED <<pools, now, retryVars, bk, regVars, rt, admVars>>

\* select(poolName, excluding) never suspends
ExcludeSets == {{}, {"T1"}}

Select ==
    /\ \E t \in Tasks, p \in Pools, x \in ExcludeSets :
          /\ tasks[t].pc = "idle"
          /\ LET s == SelectOp(pools, p, x) IN
             ret' = [NoRet EXCEPT !.op = "select", !.pool = p, !.excl = x,
                        !.result = IF IsNone(s) THEN "PoolExhausted" ELSE The(s)]
    /\ UNCHANGED <<pools, snapshot, lock, tasks, now, retryVars, bk, regVars, rt, admVars>>

CoolingTokens(P) == {tok \in Tokens : Exists(P, tok) /\ Lookup(P, tok).status = "COOLING"}

\* refreshCooling(): the credentials that are COOLING now are to be probed
RefreshBegin ==
    /\ \E t \in Tasks :
          /\ tasks[t].pc = "idle"
          /\ CoolingTokens(pools) # {}
          /\ tasks' = [tasks EXCEPT ![t] =
                [IdleTask EXCEPT !.pc = "refreshing", !.pending = CoolingTokens(pools)]]
    /\ ret' = NoRet
    /\ UNCHANGED <<pools, snapshot, lock, now, retryVars, bk, regVars, rt, admVars>>

\* one of its probes (probeUsage without consumeOnFail) comes back
RefreshProbe ==
    /\ \E t \in Tasks, a \in ProbeAnswers :
          /\ tasks[t].pc = "refreshing"
          /\ lock = None
          /\ now < MaxTime
          /\ \E tok \in tasks[t].pending :
                LET r == ProbeUsageOp(pools, tok, a, FALSE, now + 1) IN
                /\ pools' = r.pools
                /\ snapshot' = r.pools
                /\ ret' = [NoRet EXCEPT !.op = "refreshCooling", !.tok = tok,
                                        !.result = r.result]
                /\ tasks' = [tasks EXCEPT ![t] =
                      IF tasks[t].pending = {tok} THEN IdleTask
                      ELSE [@ EXCEPT !.pending = @ \ {tok}]]
    /\ now' = now + 1
    /\ UNCHANGED <<lock, retryVars, bk, regVars, rt, admVars>>

NextPool ==
    \/ Begin
    \/ EnterAdd
    \/ EnterRemove
    \/ EnterRecordOutcome
    \/ EnterProbeUsage
    \/ ClearBegin
    \/ ClearFails
    \/ BeginMarkAssetClear
    \/ EnterMarkAssetClear
    \/ SaveDone
    \/ Select
    \/ RefreshBegin
    \/ RefreshProbe

SpecPool == InitPool /\ [][NextPool]_vars

(***************************************************************************)
(* Claims about the pool manager.                                          *)
(***************************************************************************)
Records(P) == {<<p, i>> \in Pools \X (1..4) : i <= Len(P[p])}
At(P, k) == P[k[1]][k[2]]
ActiveIn(P, p, tok, x) ==
    \E i \in 1..Len(P[p]) :
        P[p][i].token = tok /\ P[p][i].status = "ACTIVE" /\ tok \notin x
NoneQualifies(P, p, x) ==
    \A i \in 1..Len(P[p]) : P[p][i].status # "ACTIVE" \/ P[p][i].token \in x

\* C5: in every reachable state, whatever add, remove, recordOutcome,
\* probeUsage, refreshCooling and markAssetClear calls led to it,
\* select(pool, excluding) yields only a credential of that pool that is
\* ACTIVE and not excluded, and PoolExhausted exactly when no credential of
\* the pool qualifies; the same holds of what a select call just returned.
C5_SelectOnlyActive ==
    /\ \A p \in Pools, x \in SUBSET Tokens :
          LET s == SelectOp(pools, p, x) IN
          IF IsNone(s) THEN NoneQualifies(pools, p, x) ELSE ActiveIn(pools, p, The(s), x)
    /\ ret.op = "select" =>
          IF ret.result = "PoolExhausted"
          THEN NoneQualifies(pools, ret.pool, ret.excl)
          ELSE ActiveIn(pools, ret.pool, ret.result, ret.excl)

\* select passed over a credential that does not qualify and returned another
C5_Witness ==
    /\ ret.op = "select"
    /\ ret.result \in Tokens
    /\ now > 0
    /\ \E i \in 1..Len(pools[ret.pool]) :
          /\ pools[ret.pool][i].token # ret.result
          /\ pools[ret.pool][i].status \in {"COOLING", "EXHAUSTED", "DISABLED", "EXPIRED"}

C6_Step ==
    /\ (/\ ret'.op = "recordOutcome"
        /\ ret'.outcome = "AuthInvalid"
        /\ Exists(pools, ret'.tok)
        /\ Lookup(pools, ret'.tok).status = "ACTIVE")
          => Exists(pools', ret'.tok) /\ Lookup(pools', ret'.tok).status = "EXPIRED"
    /\ \A tok \in Tokens :
          (Exists(pools, tok) /\ Lookup(pools, tok).status = "EXPIRED")
             => \/ Exists(pools', tok) /\ Lookup(pools', tok).status = "EXPIRED"
                \/ ~Exists(pools', tok) /\ ret'.op = "remove" /\ ret'.tok = tok
    /\ (ret'.op = "select" /\ ret'.result \in Tokens)
          => Lookup(pools', ret'.result).status # "EXPIRED"

\* C6: recordOutcome(token, AuthInvalid) on an ACTIVE credential makes it
\* EXPIRED; an EXPIRED credential stays EXPIRED through every step of every
\* task until a remove deletes it; and no select returns an EXPIRED
\* credential.
C6_AuthInvalidExpires == [][C6_Step]_vars

\* a select on the pool of a credential expired by AuthInvalid, which it
\* did not exclude, has returned
C6_Witness ==
    /\ ret.op = "select"
    /\ \E i \in 1..Len(pools[ret.pool]) :
          /\ pools[ret.pool][i].status = "EXPIRED"
          /\ pools[ret.pool][i].last_fail_reason = Some("AuthInvalid")
          /\ pools[ret.pool][i].token \notin ret.excl

Count(P, tok) == Cardinality({k \in Records(P) : At(P, k).token = tok})
Unique(P) == \A tok \in Tokens : Count(P, tok) <= 1

C7_Step ==
    ret'.op = "add" =>
        /\ IF Exists(pools, ret'.tok)
           THEN ret'.result = "DuplicateCredential" /\ pools' = pools
           ELSE /\ ret'.result = "ok"
                /\ \A p \in Pools \ {ret'.pool} : pools'[p] = pools[p]
                /\ Len(pools'[ret'.pool]) = Len(pools[ret'.pool]) + 1
                /\ SubSeq(pools'[ret'.pool], 1, Len(pools[ret'.pool])) = pools[ret'.pool]
                /\ LET rec == pools'[ret'.pool][Len(pools'[ret'.pool])] IN
                   rec.token = ret'.tok /\ rec.status = "ACTIVE" /\ rec.quota = -1
        /\ ret'.overlap => ret'.result = "DuplicateCredential"
        /\ Count(pools', ret'.tok) = 1

\* C7: token values are unique across all pools in every reachable state;
\* an add fails with DuplicateCredential and changes nothing when the token
\* is in any pool, and otherwise appends one ACTIVE record of unknown quota;
\* of two add calls of one token that run concurrently, to the same pool or
\* to different ones, the one ordered second reports DuplicateCredential
\* and the token has exactly one record.
C7_ConcurrentAdd == [](Unique(pools) /\ Unique(snapshot)) /\ [][C7_Step]_vars

\* an add that waited for the lock while another add created the same token
\* has reported DuplicateCredential
C7_Witness ==
    /\ ret.op = "add"
    /\ ret.overlap
    /\ ret.result = "DuplicateCredential"
    /\ Count(pools, ret.tok) = 1

C8_Step ==
    ret'.op = "markAssetClear" =>
        /\ \A p \in Pools : Len(pools'[p]) = Len(pools[p])
        /\ \A k \in Records(pools) :
              IF At(pools, k).token = ret'.tok
              THEN /\ At(pools', k) =
                         [At(pools, k) EXCEPT !.last_asset_clear_at = Some(now')]
                   /\ now' > now
              ELSE At(pools', k) = At(pools, k)

\* C8: markAssetClear(token) sets last_asset_clear_at of that credential to
\* the time of the change, which is later than the time at which the call
\* entered, and leaves its other fields and every other credential as they
\* were; the clock never runs backwards between the call and the change.
C8_MarkAssetClearFrame == [][C8_Step /\ now' >= now]_vars

\* the clear handler has marked a credential that is not ACTIVE
C8_Witness ==
    /\ ret.op = "markAssetClear"
    /\ ret.result = "ok"
    /\ Exists(pools, ret.tok)
    /\ Lookup(pools, ret.tok).last_asset_clear_at = Some(now)
    /\ Lookup(pools, ret.tok).status # "ACTIVE"

(***************************************************************************)
(* The request router (section 4.3): one request, driven through           *)
(* retry_on_status with the router's retry callback.                       *)
(***************************************************************************)
\* the outcome the router reports for a failure of this status, "" when the
\* credential is not implicated
OutcomeOf(status) ==
    CASE status = 401 -> "AuthInvalid"
      [] status = 429 -> "RateLimited"
      [] status = 403 -> "ForbiddenAmbiguous"
      [] OTHER -> ""

\* the retry callback: a credential-related failure excludes the credential
\* and selects another, a network error (status 0) keeps it
RetryCallback(x, P, cb) ==
    IF OutcomeOf(cb.status) = "" THEN x
    ELSE LET excl == x.excluded \cup {x.cur}
             s == SelectOp(P, x.pool, excl)
         IN  IF IsNone(s)
             THEN [x EXCEPT !.excluded = excl, !.phase = "failed",
                            !.final = Some([outcome |-> "PoolExhausted", token |-> ""])]
             ELSE [x EXCEPT !.excluded = excl, !.cur = The(s)]

\* the attempt about to be made uses the current credential
Attempt(x, invoked) == IF invoked THEN [x EXCEPT !.tried = Append(@, x.cur)] ELSE x

RouterModels == {"grok-3", "grok-latest", "grok-4-heavy", "gpt-4", ""}
RouterSnapshots ==
    { [p \in Pools |-> IF p = "ssoBasic"
                       THEN <<Loaded("T1", "ACTIVE", 5, FALSE), Loaded("T2", "ACTIVE", -1, FALSE)>>
                       ELSE <<>>],
      [p \in Pools |-> IF p = "ssoBasic"
                       THEN <<Loaded("T1", "ACTIVE", -1, FALSE)>>
                       ELSE <<Loaded("T2", "ACTIVE", 0, FALSE)>>],
      [p \in Pools |-> IF p = "ssoBasic"
                       THEN <<Loaded("T2", "COOLING", -1, TRUE)>>
                       ELSE <<Loaded("T1", "ACTIVE", 2, FALSE)>>] }

InitRouter ==
    /\ InitRetry
    /\ bk = DefaultBackoff
    /\ RegistryIdle
    /\ pools \in RouterSnapshots
    /\ snapshot = pools
    /\ lock = None
    /\ tasks = [t \in Tasks |-> IdleTask]
    /\ ret = NoRet
    /\ now = 0
    /\ rt = RouterIdle
    /\ AdminIdle

\* the request arrives: an identifier to_grok rejects fails the request at
\* once; otherwise the pool is resolved, a credential selected and the
\* upstream call handed to retry_on_status
RouterBegin ==
    /\ rt.phase = "idle"
    /\ \E m \in RouterModels :
          LET p == pool_for_model(reg, normalize(reg, m))
              s == SelectOp(pools, p, {})
          IN  IF to_grok(reg, m) = "ValidationException"
              THEN /\ rt' = [rt EXCEPT !.phase = "failed", !.model = m,
                                !.final = Some([outcome |-> "ValidationError", token |-> ""])]
                   /\ UNCHANGED retryVars
              ELSE IF IsNone(s)
              THEN /\ rt' = [rt EXCEPT !.phase = "failed", !.model = m, !.pool = p,
                                !.final = Some([outcome |-> "PoolExhausted", token |-> ""])]
                   /\ UNCHANGED retryVars
              ELSE /\ DoStart
                   /\ rt' = Attempt([rt EXCEPT !.phase = "running", !.model = m, !.pool = p,
                                               !.cur = The(s)], pc' = "call")
    /\ UNCHANGED <<bk, regVars, pools, snapshot, lock, tasks, ret, now, admVars>>

\* the attempt succeeds: Success is recorded against its credential
RouterOpReturns ==
    /\ rt.phase = "running"
    /\ DoOpReturns
    /\ pools' = RecordOutcomeOp(pools, rt.cur, "Success", now + 1).pools
    /\ snapshot' = pools'
    /\ now' = now + 1
    /\ rt' = [rt EXCEPT !.phase = "done",
                        !.final = Some([outcome |-> "Success", token |-> rt.cur])]
    /\ UNCHANGED <<bk, regVars, lock, tasks, ret, admVars>>

\* the attempt fails with e: a credential-related failure is recorded
\* against its credential, and retry_on_status decides; when it retries,
\* on_retry runs before the sleep, and PoolExhausted raised in it ends the
\* call
RouterOpRaises ==
    /\ rt.phase = "running"
    /\ pc = "call"
    /\ \E e \in Errors :
          LET status == extract_status(e)
              o == IF IsNone(status) THEN "" ELSE OutcomeOf(The(status))
              P == IF o = "" THEN pools ELSE RecordOutcomeOp(pools, rt.cur, o, now + 1).pools
              h == HandleFailure(ctx, cfg, bk, e)
              x == IF h.retry THEN RetryCallback(rt, P, The(h.cb)) ELSE rt
          IN  /\ hist' = Append(hist, e)
              /\ ctx' = h.ctx
              /\ pools' = P
              /\ snapshot' = P
              /\ now' = IF o = "" THEN now ELSE now + 1
              /\ cbs' = IF h.retry THEN Append(cbs, The(h.cb)) ELSE cbs
              /\ IF h.retry /\ x.phase = "running"
                 THEN pc' = "sleep" /\ slept' = Append(slept, h.delay) /\ result' = result
                      /\ rt' = x
                 ELSE /\ pc' = "raised"
                      /\ slept' = slept
                      /\ result' = Some(IF h.retry THEN "PoolExhausted" ELSE Reraise(ctx, e))
                      /\ rt' = IF h.retry THEN x
                               ELSE [rt EXCEPT !.phase = "done",
                                        !.final = Some([outcome |-> IF o = "" THEN "Failure" ELSE o,
                                                        token |-> rt.cur])]
    /\ UNCHANGED <<cfg, calls, bk, regVars, lock, tasks, ret, admVars>>

\* the backoff sleep ends and the next attempt, if any, is made
RouterWake ==
    /\ rt.phase = "running"
    /\ DoWake
    /\ rt' = Attempt(rt, pc' = "call")
    /\ UNCHANGED <<bk, regVars, pools, snapshot, lock, tasks, ret, now, admVars>>

NextRouter == RouterBegin \/ RouterOpReturns \/ RouterOpRaises \/ RouterWake

SpecRouter == InitRouter /\ [][NextRouter]_vars

(***************************************************************************)
(* Claims about the router.                                                *)
(***************************************************************************)
CredentialRelated(e) ==
    ~IsNone(extract_status(e)) /\ The(extract_status(e)) \in {401, 429, 403}

C11_LastFailureReraised ==
    pc = "raised" =>
        /\ Len(hist) = calls
        /\ calls >= 1
        /\ hist[Len(hist)] \in Errors
        /\ result = Some(hist[Len(hist)])

\* the call gave up after attempts that failed in different ways
C11_Witness ==
    /\ pc = "raised"
    /\ Len(hist) >= 2
    /\ hist[1] # hist[Len(hist)]
    /\ result = Some(hist[Len(hist)])

(***************************************************************************)
(* The administrative handlers of admin.py that write the credential       *)
(* pools: update_tokens_api, worker_update_token_tags and                  *)
(* worker_update_token_note, run by tasks concurrent with the manager's    *)
(* own operations.                                                         *)
(***************************************************************************)
Response(op, res) == [NoRet EXCEPT !.op = op, !.result = res]

\* the token documents an administrator may post
UpdateDocs ==
    { EmptyPools,
      [p \in Pools |-> IF p = "ssoBasic" THEN <<Loaded("T2", "ACTIVE", -1, FALSE)>> ELSE <<>>] }
\* the token, tags and note of an edit request
EditTokens == {"T1", ""}
TagSets == {{}, {"vip"}}
Notes == {"", "n"}

\* a bug the lock scope could have: the lock is kept when the body raises
AsyncWithExit_KeptOnRaise(holder, t, raised) ==
    IF raised THEN holder ELSE None

\* leaving "async with storage.acquire_lock(...)": the lock is released,
\* however the body ended
AsyncWithExit(holder, t, raised) == None

InitAdmin ==
    /\ pools \in UpdateDocs
    /\ snapshot = pools
    /\ lock = None
    /\ tasks = [t \in Tasks |-> IdleTask]
    /\ ret = NoRet
    /\ now = 0
    /\ RetryIdle
    /\ bk = DefaultBackoff
    /\ RegistryIdle
    /\ rt = RouterIdle
    /\ AdminIdle

\* update_tokens_api is called with a document and asks for the lock
UpdateCall ==
    /\ \E t \in Tasks, d \in UpdateDocs :
          /\ tasks[t].pc = "idle"
          /\ tasks' = [tasks EXCEPT ![t] =
                [IdleTask EXCEPT !.pc = "acquire", !.op = "update_tokens", !.data = Some(d)]]
    /\ ret' = NoRet
    /\ UNCHANGED <<pools, snapshot, lock, now, rt, slock, retryVars, bk, regVars, au, extVars>>

\* the lock is free and is taken
UpdateLocked ==
    /\ \E t \in Tasks :
          /\ tasks[t].pc = "acquire"
          /\ slock = None
          /\ slock' = Some(t)
          /\ tasks' = [tasks EXCEPT ![t].pc = "saving"]
    /\ ret' = NoRet
    /\ UNCHANGED <<pools, snapshot, lock, now, rt, retryVars, bk, regVars, au, extVars>>

\* the lock is held for longer than the timeout: acquire_lock raises
UpdateLockTimeout ==
    /\ \E t \in Tasks :
          /\ tasks[t].pc = "acquire"
          /\ slock # None
          /\ tasks' = [tasks EXCEPT ![t] = IdleTask]
    /\ ret' = Response("update_tokens", "HTTP 500")
    /\ UNCHANGED <<pools, snapshot, lock, now, rt, slock, retryVars, bk, regVars, au, extVars>>

\* save_tokens(data) returns
UpdateSaved ==
    /\ \E t \in Tasks :
          /\ tasks[t].pc = "saving"
          /\ snapshot' = The(tasks[t].data)
          /\ tasks' = [tasks EXCEPT ![t].pc = "reloading"]
    /\ ret' = NoRet
    /\ UNCHANGED <<pools, lock, now, rt, slock, retryVars, bk, regVars, au, extVars>>

\* mgr.reload() returns, the lock is left and success is answered
UpdateReloaded ==
    /\ \E t \in Tasks :
          /\ tasks[t].pc = "reloading"
          /\ lock = None
          /\ slock' = AsyncWithExit(slock, t, FALSE)
          /\ tasks' = [tasks EXCEPT ![t] = IdleTask]
    /\ pools' = snapshot
    /\ ret' = Response("update_tokens", "success")
    /\ UNCHANGED <<snapshot, lock, now, rt, retryVars, bk, regVars, au, extVars>>

\* save_tokens, get_token_manager or reload raises: the lock is left and
\* the exception is turned into HTTPException(500)
UpdateRaises ==
    /\ \E t \in Tasks :
          /\ tasks[t].pc \in {"saving", "reloading"}
          /\ slock' = AsyncWithExit(slock, t, TRUE)
          /\ tasks' = [tasks EXCEPT ![t] = IdleTask]
    /\ ret' = Response("update_tokens", "HTTP 500")
    /\ UNCHANGED <<pools, snapshot, lock, now, rt, retryVars, bk, regVars, au, extVars>>

\* worker_update_token_tags up to its await of mgr._save()
TagsCall ==
    /\ \E t \in Tasks, tok \in EditTokens, tags \in TagSets :
          /\ tasks[t].pc = "idle"
          /\ IF tok = ""
             THEN /\ ret' = Response("tags", "HTTP 400")
                  /\ UNCHANGED <<pools, tasks>>
             ELSE IF Exists(pools, tok)
             THEN /\ pools' = Replace(pools, tok, [Lookup(pools, tok) EXCEPT !.tags = tags])
                  /\ tasks' = [tasks EXCEPT ![t] =
                        [IdleTask EXCEPT !.pc = "tagsave", !.op = "tags", !.tok = tok]]
                  /\ ret' = NoRet
             ELSE /\ ret' = Response("tags", "not found")
                  /\ UNCHANGED <<pools, tasks>>
    /\ UNCHANGED <<snapshot, lock, now, rt, slock, retryVars, bk, regVars, au, extVars>>

\* worker_update_token_note up to its await of mgr._save()
NoteCall ==
    /\ \E t \in Tasks, tok \in EditTokens, note \in Notes :
          /\ tasks[t].pc = "idle"
          /\ IF tok = ""
             THEN /\ ret' = Response("note", "HTTP 400")
                  /\ UNCHANGED <<pools, tasks>>
             ELSE IF Exists(pools, tok)
             THEN /\ pools' = Replace(pools, tok, [Lookup(pools, tok) EXCEPT !.note = note])
                  /\ tasks' = [tasks EXCEPT ![t] =
                        [IdleTask EXCEPT !.pc = "notesave", !.op = "note", !.tok = tok]]
                  /\ ret' = NoRet
             ELSE /\ ret' = Response("note", "not found")
                  /\ UNCHANGED <<pools, tasks>>
    /\ UNCHANGED <<snapshot, lock, now, rt, slock, retryVars, bk, regVars, au, extVars>>

\* mgr._save() of either handler returns and success is answered
EditSaved ==
    /\ \E t \in Tasks :
          /\ tasks[t].pc \in {"tagsave", "notesave"}
          /\ ret' = Response(tasks[t].op, "success")
          /\ tasks' = [tasks EXCEPT ![t] = IdleTask]
    /\ snapshot' = pools
    /\ UNCHANGED <<pools, lock, now, rt, slock, retryVars, bk, regVars, au, extVars>>

NextAdmin ==
    \/ UpdateCall
    \/ UpdateLocked
    \/ UpdateLockTimeout
    \/ UpdateSaved
    \/ UpdateReloaded
    \/ UpdateRaises
    \/ TagsCall
    \/ NoteCall
    \/ EditSaved
    \/ Begin
    \/ EnterAdd
    \/ SaveDone

SpecAdmin == InitAdmin /\ [][NextAdmin]_vars

C12_Step ==
    \A t \in Tasks :
        (tasks[t].op = "update_tokens" /\ tasks[t].pc # "idle" /\ tasks'[t].pc = "idle") =>
            /\ slock' # Some(t)
            /\ ret'.op = "update_tokens"
            /\ ret'.result \in {"success", "HTTP 500"}
            /\ ret'.result = "success" => tasks[t].pc = "reloading" /\ pools' = snapshot
            /\ tasks[t].pc \in {"acquire", "saving"} => ret'.result = "HTTP 500"

\* C12: in update_tokens_api the storage lock tokens_save is held by a task
\* exactly while it is in save_tokens or in the manager reload, so it is
\* released on every way out; the handler always ends with a response,
\* which is success only after the reload came back, and HTTP 500 when the
\* lock timed out or the save or the reload failed.
C12_UpdateLockScoped ==
    /\ [](\A t \in Tasks : slock = Some(t) <=> tasks[t].pc \in {"saving", "reloading"})
    /\ [][C12_Step]_vars

\* an update timed out on the lock another update holds, and answered 500
C12_Witness ==
    /\ ret.op = "update_tokens"
    /\ ret.result = "HTTP 500"
    /\ \E t \in Tasks : slock = Some(t) /\ tasks[t].pc = "reloading"

\* C13: the in-memory pools map changes only in steps taken while no other
\* task is inside the manager's critical section (between its change and
\* the end of its save).
C13_MutationsSerialized == [][pools' # pools => lock = None]_vars

InitAuth ==
    /\ RetryIdle
    /\ bk = DefaultBackoff
    /\ RegistryIdle
    /\ PoolIdle
    /\ slock = None
    /\ ExtIdle
    /\ \E k \in AppKeys, g \in ApiKeys :
          au = [AuthIdle EXCEPT !.app_key = k, !.api_key = g]

\* the response of a guarded handler: the dependency's 401, or the
\* handler's own answer
Answer(fn, auth, v) ==
    [fn |-> fn, auth |-> auth, status |-> v.status, detail |-> v.detail,
     key_info |-> v.key_info]

AdminLoginApi ==
    /\ \E auth \in Bearers :
          au' = [au EXCEPT !.resp = Answer("admin_login_api", auth, verify_app_key(au, auth))]
    /\ UNCHANGED <<retryVars, bk, regVars, poolVars, slock, extVars>>

ListApiKeys ==
    /\ \E auth \in Bearers :
          au' = [au EXCEPT !.resp = Answer("list_api_keys", auth, verify_api_key(au, auth))]
    /\ UNCHANGED <<retryVars, bk, regVars, poolVars, slock, extVars>>

\* add_key makes a key that is not in the list yet
AddApiKey ==
    /\ \E auth \in Bearers, k \in ManagedKeys :
          LET v == verify_api_key(au, auth)
          IN  /\ \A r \in au.keys : r.key # k
              /\ au' = [au EXCEPT !.resp = Answer("add_api_key", auth, v),
                                  !.keys = IF v.status = 200
                                           THEN @ \cup {[key |-> k, is_active |-> TRUE]}
                                           ELSE @]
    /\ UNCHANGED <<retryVars, bk, regVars, poolVars, slock, extVars>>

DeleteApiKeys ==
    /\ \E auth \in Bearers, k \in ManagedKeys :
          LET v == verify_api_key(au, auth)
          IN  au' = [au EXCEPT !.resp = Answer("delete_api_keys", auth, v),
                               !.keys = IF v.status = 200
                                        THEN {r \in @ : r.key # k}
                                        ELSE @]
    /\ UNCHANGED <<retryVars, bk, regVars, poolVars, slock, extVars>>

UpdateApiKeysStatus ==
    /\ \E auth \in Bearers, k \in ManagedKeys, is_active \in BOOLEAN :
          LET v == verify_api_key(au, auth)
          IN  au' = [au EXCEPT !.resp = Answer("update_api_keys_status", auth, v),
                               !.keys = IF v.status = 200
                                        THEN {IF r.key = k
                                              THEN [r EXCEPT !.is_active = is_active]
                                              ELSE r : r \in @}
                                        ELSE @]
    /\ UNCHANGED <<retryVars, bk, regVars, poolVars, slock, extVars>>

NextAuth ==
    AdminLoginApi \/ ListApiKeys \/ AddApiKey \/ DeleteApiKeys \/ UpdateApiKeysStatus

SpecAuth == InitAuth /\ [][NextAuth]_vars

(***************************************************************************)
(* Claims about authentication.                                            *)
(***************************************************************************)
\* C15: the login request passes verify_app_key whenever no app_key is
\* configured, and with an app_key configured it passes exactly when its
\* Bearer credential equals the app_key.
C15_AppKeyGate ==
    au.resp.fn = "admin_login_api" =>
        IF au.app_key = ""
        THEN au.resp.status = 200
        ELSE au.resp.status = 200 <=> au.resp.auth = Some(au.app_key)

ApiKeyGuarded ==
    {"list_api_keys", "add_api_key", "delete_api_keys", "update_api_keys_status"}

C16_Step ==
    (au'.resp.fn \in ApiKeyGuarded /\ au'.resp # au.resp) =>
        IF au.api_key = "" /\ get_all_keys(au) = {}
        THEN au'.resp.status = 200
        ELSE (IsNone(au'.resp.auth) \/ IsNone(validate_key(au, The(au'.resp.auth))))
                 => au'.resp.status = 401

\* C16: a request to a handler guarded by verify_api_key is let through,
\* with or without a Bearer credential, when neither a global api_key nor
\* any managed key exists; when one does, a request without a credential
\* or with one the key manager does not validate gets 401.
C16_ApiKeyGate == [][C16_Step]_vars

(***************************************************************************)
(* Further claims about retry_on_status: failures without a status, the    *)
(* order of the retry steps.                                               *)
(***************************************************************************)
\* the failure of the invocation that ends in this step
Failed == hist'[Len(hist')]

C17_Step ==
    (pc = "call" /\ Len(hist') = Len(hist) + 1 /\ Failed \in Errors
     /\ IsNone(extract_status(Failed))) =>
        IF /\ cfg.retry_on_network_error
           /\ Failed \in NetworkFailures
           /\ ctx.attempt < ctx.max_retry
        THEN /\ pc' = "sleep"
             /\ Len(cbs') = Len(cbs) + 1
        ELSE /\ pc' = "raised"
             /\ result' = Some(Failed)
             /\ cbs' = cbs
             /\ slept' = slept
             /\ calls' = calls

\* C17: a failure without a status is retried exactly when
\* retry_on_network_error is on, the failure is a network error (by its
\* kind, or by a keyword in its message whatever the case) and fewer than
\* max_retry retries were made; the retried call is invoked again after the
\* sleep; otherwise the failure is re-raised with no callback, and after
\* that the operation is never invoked again.
C17_StatuslessFailure ==
    /\ [][C17_Step]_vars
    /\ [][pc = "sleep" => pc' = "call" /\ calls' = calls + 1]_vars
    /\ [][pc = "raised" => pc' = "raised" /\ calls' = calls /\ cbs' = cbs]_vars

\* a message-classified network error was retried, then a failure that is
\* no network error was re-raised with budget left
C17_Witness ==
    /\ pc = "raised"
    /\ hist = <<ENetMessage, EOther>>
    /\ ctx.max_retry = 3
    /\ Len(cbs) = 1
    /\ result = Some(EOther)

StatusOrZero(e) == IF IsNone(extract_status(e)) THEN 0 ELSE The(extract_status(e))

C18_State ==
    /\ Len(slept) = Len(cbs)
    /\ pc = "sleep" => Len(cbs) = calls
    /\ pc \in {"call", "returned", "raised"} => Len(cbs) = calls - 1
    /\ \A i \in 1..Len(cbs) :
          cbs[i] = [attempt |-> i, status |-> StatusOrZero(hist[i]), error |-> hist[i]]

C18_Step ==
    /\ (calls' = calls + 1 /\ calls >= 1) =>
          /\ pc = "sleep"
          /\ ctx.attempt = calls
          /\ cbs' = cbs /\ slept' = slept /\ ctx' = ctx
    /\ pc' = "sleep" =>
          /\ pc = "call"
          /\ calls' = calls
          /\ ctx'.attempt = ctx.attempt + 1
          /\ cbs' = Append(cbs, [attempt |-> ctx'.attempt, status |-> StatusOrZero(Failed),
                                 error |-> Failed])
          /\ Len(slept') = Len(slept) + 1
    /\ pc \in {"returned", "raised"} => cbs' = cbs /\ slept' = slept

\* C18: between a failed invocation and the next one the attempt counter is
\* advanced, on_retry is called once with (the advanced attempt, the status
\* of the failure or 0, the failure) and the call sleeps once; a call that
\* ended in a success or in the re-raised failure has called on_retry once
\* per invocation but the last, and never calls it afterwards.
C18_RetrySteps == []C18_State /\ [][C18_Step]_vars

\* three invocations, a status retry and a network retry, then success
C18_Witness ==
    /\ pc = "returned"
    /\ calls = 3
    /\ hist = <<ERateLimited, ENetKind, Ok>>
    /\ Len(cbs) = 2
    /\ cbs[1].status = 429 /\ cbs[2].status = 0

(***************************************************************************)
(* retry_on_status while another task changes the configuration, and a     *)
(* later call after the first has ended.                                   *)
(***************************************************************************)
\* another task sets grok.max_retry, grok.retry_status_codes or
\* grok.retry_on_network_error
SetConfig ==
    /\ \E c \in Configs : c # cfg /\ cfg' = c
    /\ UNCHANGED <<ctx, pc, calls, hist, cbs, result, slept, bk, regVars, poolVars, admVars>>

\* the call has ended and retry_on_status is called again
NextCall ==
    /\ Terminated
    /\ pc' = "idle"
    /\ ctx' = RetryContext([max_retry |-> 0, retry_codes |-> {}])
    /\ calls' = 0
    /\ hist' = <<>>
    /\ cbs' = <<>>
    /\ result' = None
    /\ slept' = <<>>
    /\ UNCHANGED <<cfg, bk, regVars, poolVars, admVars>>

NextReconf == Start \/ OpReturns \/ OpRaises \/ Wake \/ SetConfig \/ NextCall

SpecReconf == Init /\ [][NextReconf]_vars

C19_State ==
    (pc # "idle" /\ ctx.max_retry >= 0) =>
        /\ calls <= ctx.max_retry + 1
        /\ pc \in {"call", "sleep"} => ctx.attempt <= ctx.max_retry
        /\ \A i \in 1..Len(cbs) : cbs[i].status # 0 => cbs[i].status \in ctx.retry_codes

C19_Step ==
    /\ pc = "idle" /\ pc' # "idle" =>
          ctx'.max_retry = cfg.max_retry /\ ctx'.retry_codes = cfg.retry_codes
    /\ pc # "idle" /\ pc' # "idle" =>
          ctx'.max_retry = ctx.max_retry /\ ctx'.retry_codes = ctx.retry_codes
    /\ cfg' # cfg => UNCHANGED <<ctx, pc, calls, hist, cbs, result, slept>>
    /\ (pc = "call" /\ Len(hist') = Len(hist) + 1 /\ Failed \in Errors
        /\ ~IsNone(extract_status(Failed))) =>
          (pc' = "sleep" <=> /\ The(extract_status(Failed)) \in ctx.retry_codes
                             /\ ctx.attempt + 1 < ctx.max_retry)

\* C19: the call's max_retry and retry codes are those of the configuration
\* at its start and stay so while the configuration changes; the number of
\* invocations and the statuses retried follow the call's own values, not
\* the configuration of the moment; a call started later takes the
\* configuration of its own start.
C19_BudgetSnapshot == []C19_State /\ [][C19_Step]_vars

\* the configuration was changed to no retries and to other codes while the
\* call went on to its fourth invocation, retrying 429
C19_Witness ==
    /\ pc = "raised"
    /\ calls = 4
    /\ ctx.max_retry = 3
    /\ cfg.max_retry = 0
    /\ cfg.retry_codes = {}
    /\ \E i \in 1..Len(cbs) : cbs[i].status = 429

(***************************************************************************)
(* Bounds of the backoff delay.                                            *)
(***************************************************************************)
\* of two evaluations in a row, the one for the later attempt is not shorter
C20_Monotone ==
    (~IsNone(bk.delay) /\ ~IsNone(bk'.delay) /\ bk'.attempt >= bk.attempt) =>
        The(bk'.delay) >= The(bk.delay)

\* C20 as stated: whatever the settings and the attempt, the delay is not
\* negative, is at most backoff_max, and does not decrease with the attempt.
C20_Stated ==
    /\ [](~IsNone(bk.delay) => The(bk.delay) >= 0 /\ The(bk.delay) <= bk.max)
    /\ [][C20_Monotone]_vars

\* C20 amended: whatever the settings and the attempt, the delay is not
\* negative and does not decrease with the attempt; it is at most
\* backoff_max when backoff_max > 0, and not capped when backoff_max <= 0.
C20_DelayBounds ==
    /\ [](~IsNone(bk.delay) =>
            /\ The(bk.delay) >= 0
            /\ bk.max > 0 => The(bk.delay) <= bk.max
            /\ bk.max <= 0 =>
                 The(bk.delay) = Max(0, bk.base) * Pow(Max(1, bk.factor), Max(0, bk.attempt - 1)))
    /\ [][C20_Monotone]_vars

\* with backoff_max = 0 the fourth delay has grown to 81
C20_Witness ==
    /\ bk.max = 0 /\ bk.base = 3 /\ bk.factor = 3 /\ bk.attempt = 4
    /\ bk.delay = Some(81)

(***************************************************************************)
(* The bulk administrative operations of admin.py: refresh_tokens_api and  *)
(* clear_online_cache_api.                                                 *)
(***************************************************************************)
MaxTokens == 11

\* asyncio.Semaphore(10)
RefreshSemaphore == 10

\* performance.admin_assets_batch_size as configured: an integer, or a value
\* int() does not take (None)
BatchSettings == {Some(-1), Some(0), Some(1), Some(2), Some(10), None}

\* batch_size = max(1, int(batch_size)), 10 when int() raises
BatchSize(v) == Max(1, IF IsNone(v) THEN 10 ELSE The(v))

\* a bug the limiter could have: it never blocks
SemaphoreFree_Always(limit, held) == TRUE

\* async with sem: the semaphore is taken while fewer than limit hold it
SemaphoreFree(limit, held) == held < limit

\* the "tokens" lists a clear request may carry, None when it is no list
ClearLists ==
    {None, Some(<<>>), Some(<<"", " ">>), Some(<<"T1">>), Some(<<"T1", "", "T2">>),
     Some(<<"T1", "T2", "T3">>)}

\* [t.strip() for t in tokens if isinstance(t, str) and t.strip()]
strip(t) == IF t \in {"", " "} THEN "" ELSE t
Stripped(tokens) == SelectSeq([i \in 1..Len(tokens) |-> strip(tokens[i])], LAMBDA t : t # "")

Range(sq) == {sq[i] : i \in 1..Len(sq)}

Entry(t, status) == [t |-> t, status |-> status]

InitBulk ==
    /\ RetryIdle
    /\ bk = DefaultBackoff
    /\ RegistryIdle
    /\ PoolIdle
    /\ slock = None
    /\ au = AuthIdle
    /\ bulk = BulkIdle
    /\ conf = ConfIdle
    /\ mw = MwIdle

BulkFrame == UNCHANGED <<retryVars, bk, regVars, poolVars, slock, au, conf, mw>>

\* the handler is left through except Exception: HTTPException(500), the
\* delete service closed in the finally block if it was made
Caught(b) ==
    [b EXCEPT !.pc = "done", !.resp = 500,
              !.service = IF b.service = "open" THEN "closed" ELSE b.service]

\* raise HTTPException(status_code) inside the handler's try block:
\* HTTPException is an Exception, so except Exception catches it
Raise(b, status_code) == Caught([b EXCEPT !.raised = status_code])

\* refresh_tokens_api with n distinct tokens
RefreshCall ==
    /\ bulk.pc = "idle"
    /\ \E n \in 0..MaxTokens :
          bulk' = IF n = 0
                  THEN Raise([bulk EXCEPT !.op = "refresh"], 400)
                  ELSE [bulk EXCEPT !.op = "refresh", !.pc = "running",
                                    !.limit = RefreshSemaphore,
                                    !.list = [i \in 1..n |-> i]]
    /\ BulkFrame

\* the next _refresh_one enters the semaphore and calls sync_usage
RefreshAcquire ==
    /\ bulk.op = "refresh" /\ bulk.pc = "running"
    /\ bulk.next <= Len(bulk.list)
    /\ SemaphoreFree(bulk.limit, Cardinality(bulk.inflight))
    /\ bulk' = [bulk EXCEPT !.inflight = @ \cup {bulk.list[bulk.next]}, !.next = @ + 1]
    /\ BulkFrame

\* the tasks gather awaits are all over
Drained(b) == b.next > Len(b.list) /\ b.inflight = {} /\ b.marking = {}

\* sync_usage returns for one token; the last one ends the gather, and the
\* results are put together when none has raised
RefreshReturns ==
    /\ bulk.op = "refresh" /\ bulk.pc = "running"
    /\ \E t \in bulk.inflight :
          LET b == [bulk EXCEPT !.inflight = @ \ {t}]
          IN  bulk' = IF ~Drained(b) THEN b
                      ELSE IF b.resp = 0
                      THEN [b EXCEPT !.pc = "done", !.resp = 200,
                                     !.results = {Entry(u, "success") : u \in Range(b.list)}]
                      ELSE [b EXCEPT !.pc = "done"]
    /\ BulkFrame

\* sync_usage raises for one token: gather raises, the handler answers 500,
\* the other tasks run on
RefreshRaises ==
    /\ bulk.op = "refresh" /\ bulk.pc = "running"
    /\ \E t \in bulk.inflight :
          LET b == [bulk EXCEPT !.inflight = @ \ {t}, !.resp = 500]
          IN  bulk' = IF Drained(b) THEN [b EXCEPT !.pc = "done"] ELSE b
    /\ BulkFrame

\* token_list[i:i + batch_size], with i counted from 1
Chunk(list, i, batch_size) == SubSeq(list, i, Min(Len(list), i + batch_size - 1))

\* clear_online_cache_api: a list of tokens, or one token (the request's
\* or the manager's, "" when there is none)
ClearCall ==
    /\ bulk.pc = "idle"
    /\ \E tokens \in ClearLists, v \in BatchSettings, token \in {"", "T1"} :
          LET b == [bulk EXCEPT !.service = "open", !.setting = v]
          IN  bulk' =
                IF ~IsNone(tokens)
                THEN IF Stripped(The(tokens)) = <<>>
                     THEN Raise([b EXCEPT !.op = "clear"], 400)
                     ELSE [b EXCEPT !.op = "clear", !.pc = "running",
                                    !.limit = BatchSize(v), !.list = Stripped(The(tokens))]
                ELSE IF token = ""
                     THEN Raise([b EXCEPT !.op = "clear1"], 400)
                     ELSE [b EXCEPT !.op = "clear1", !.pc = "running", !.limit = 1,
                                    !.list = <<token>>]
    /\ BulkFrame

\* get_token_manager raises before the delete service is made
ClearManagerFails ==
    /\ bulk.pc = "idle"
    /\ bulk' = Caught([bulk EXCEPT !.op = "clear"])
    /\ BulkFrame

\* gather over the next chunk: every _clear_one of it calls delete_all
ClearChunk ==
    /\ bulk.op \in {"clear", "clear1"} /\ bulk.pc = "running"
    /\ bulk.inflight = {} /\ bulk.marking = {}
    /\ bulk.next <= Len(bulk.list)
    /\ bulk' = [bulk EXCEPT !.inflight = Range(Chunk(bulk.list, bulk.next, bulk.limit)),
                            !.next = @ + bulk.limit]
    /\ BulkFrame

\* delete_all(t) returns and mark_asset_clear(t) is called
DeleteReturns ==
    /\ bulk.op \in {"clear", "clear1"} /\ bulk.pc = "running"
    /\ \E t \in bulk.inflight :
          bulk' = [bulk EXCEPT !.inflight = @ \ {t}, !.deleted = @ \cup {t},
                               !.marking = @ \cup {t}]
    /\ BulkFrame

\* a bug _clear_one could have: the token is marked though delete_all raised
DeleteRaises_StillMarks ==
    /\ bulk.op \in {"clear", "clear1"} /\ bulk.pc = "running"
    /\ \E t \in bulk.inflight :
          bulk' = [bulk EXCEPT !.inflight = @ \ {t}, !.marking = @ \cup {t}]
    /\ BulkFrame

\* delete_all(t) raises: an error entry in the batch, HTTP 500 for one token
DeleteRaises ==
    /\ bulk.op \in {"clear", "clear1"} /\ bulk.pc = "running"
    /\ \E t \in bulk.inflight :
          bulk' = IF bulk.op = "clear"
                  THEN [bulk EXCEPT !.inflight = @ \ {t},
                                    !.results = @ \cup {Entry(t, "error")}]
                  ELSE Caught([bulk EXCEPT !.inflight = @ \ {t}])
    /\ BulkFrame

\* mark_asset_clear(t) returns
MarkReturns ==
    /\ bulk.op \in {"clear", "clear1"} /\ bulk.pc = "running"
    /\ \E t \in bulk.marking :
          bulk' = [bulk EXCEPT !.marking = @ \ {t}, !.marked = @ \cup {t},
                               !.results = @ \cup {Entry(t, "success")}]
    /\ BulkFrame

\* mark_asset_clear(t) raises
MarkRaises ==
    /\ bulk.op \in {"clear", "clear1"} /\ bulk.pc = "running"
    /\ \E t \in bulk.marking :
          bulk' = IF bulk.op = "clear"
                  THEN [bulk EXCEPT !.marking = @ \ {t},
                                    !.results = @ \cup {Entry(t, "error")}]
                  ELSE Caught([bulk EXCEPT !.marking = @ \ {t}])
    /\ BulkFrame

\* the last chunk is over: the results are returned, the service closed
ClearFinish ==
    /\ bulk.op \in {"clear", "clear1"} /\ bulk.pc = "running"
    /\ Drained(bulk)
    /\ bulk' = [bulk EXCEPT !.pc = "done", !.resp = 200, !.service = "closed"]
    /\ BulkFrame

NextBulk ==
    \/ RefreshCall \/ RefreshAcquire \/ RefreshReturns \/ RefreshRaises
    \/ ClearCall \/ ClearManagerFails \/ ClearChunk \/ DeleteReturns \/ DeleteRaises
    \/ MarkReturns \/ MarkRaises \/ ClearFinish

SpecBulk == InitBulk /\ [][NextBulk]_vars

(***************************************************************************)
(* Claims about the bulk operations.                                       *)
(***************************************************************************)
\* the batch size the claim states for a setting
StatedBatch(v) == IF IsNone(v) THEN 10 ELSE IF The(v) < 1 THEN 1 ELSE The(v)

\* C21: the upstream calls of a refresh in flight are never more than 10,
\* and those of a batch clear never more than the configured batch size
\* (10 when it is no integer, at least 1), however many tokens were
\* submitted.
C21_FanOutBounded ==
    /\ bulk.op = "refresh" => Cardinality(bulk.inflight) <= 10
    /\ bulk.op = "clear" =>
          Cardinality(bulk.inflight) + Cardinality(bulk.marking) <= StatedBatch(bulk.setting)

\* eleven tokens submitted: ten probes in flight, the eleventh waits
C21_Witness ==
    /\ bulk.op = "refresh"
    /\ Len(bulk.list) = 11
    /\ Cardinality(bulk.inflight) = 10
    /\ bulk.next = 11

\* three tokens with batch size 2: two clears in flight, the third waits
C21_WitnessClear ==
    /\ bulk.op = "clear"
    /\ bulk.setting = Some(2)
    /\ Len(bulk.list) = 3
    /\ Cardinality(bulk.inflight) = 2

Failures(b) == {t \in Range(b.list) : Entry(t, "error") \in b.results}

C22_State ==
    bulk.op = "clear" =>
        /\ bulk.marking \cup bulk.marked \subseteq bulk.deleted
        /\ bulk.deleted \subseteq bulk.marking \cup bulk.marked \cup Failures(bulk)
        /\ \A t \in Range(bulk.list) :
              /\ Entry(t, "success") \in bulk.results <=> t \in bulk.marked
              /\ Entry(t, "error") \in bulk.results => t \notin bulk.marked
        /\ bulk.pc = "running" => bulk.service = "open"
        /\ bulk.pc = "done" => bulk.service \in {"none", "closed"}
        /\ (bulk.pc = "done" /\ bulk.resp = 200) =>
              \A t \in Range(bulk.list) :
                  Entry(t, "success") \in bulk.results \/ Entry(t, "error") \in bulk.results

C22_Step ==
    bulk.op = "clear" =>
        /\ \A t \in bulk'.marking \ bulk.marking : t \in bulk.inflight /\ t \in bulk'.deleted
        /\ \A t \in Failures(bulk') \ Failures(bulk) :
              /\ bulk'.pc = "running"
              /\ bulk'.marked = bulk.marked
              /\ bulk'.deleted = bulk.deleted
              /\ bulk'.results = bulk.results \cup {Entry(t, "error")}
              /\ bulk'.inflight \cup bulk'.marking = (bulk.inflight \cup bulk.marking) \ {t}

\* C22: in the batch clear mark_asset_clear(t) is called exactly for the
\* tokens whose delete_all returned, in the step in which it returned; a
\* token whose delete or mark raised gets an error entry of its own while
\* the batch goes on and every other token keeps its outcome; the delete
\* service is open while the batch runs and closed once the handler is
\* left, if it was made.
C22_MarkAfterDelete == []C22_State /\ [][C22_Step]_vars

\* T1 could not be deleted; T2 and T3 were deleted and marked
C22_Witness ==
    /\ bulk.op = "clear" /\ bulk.pc = "done" /\ bulk.resp = 200
    /\ bulk.list = <<"T1", "T2", "T3">>
    /\ bulk.deleted = {"T2", "T3"}
    /\ bulk.marked = {"T2", "T3"}
    /\ Entry("T1", "error") \in bulk.results
    /\ bulk.service = "closed"

(***************************************************************************)
(* Further claims about the pool manager.                                  *)
(***************************************************************************)
C23_Step ==
    \A tok \in Tokens, s \in {"EXPIRED", "DISABLED"} :
        (Exists(pools, tok) /\ Lookup(pools, tok).status = s)
           => \/ Exists(pools', tok) /\ Lookup(pools', tok).status = s
              \/ ~Exists(pools', tok) /\ ret'.op = "remove" /\ ret'.tok = tok

\* C23: a credential that is EXPIRED or DISABLED keeps that status through
\* every recordOutcome, probeUsage, refreshCooling, select and
\* markAssetClear of every task; it leaves it only by being removed.
C23_TerminalStatus == [][C23_Step]_vars

\* a DISABLED credential was probed, the probe found quota, and it is still
\* DISABLED
C23_Witness ==
    /\ ret.op = "probeUsage"
    /\ ret.result = "ok"
    /\ Exists(pools, ret.tok)
    /\ Lookup(pools, ret.tok).status = "DISABLED"
    /\ Lookup(pools, ret.tok).quota = 2

(***************************************************************************)
(* The settings handler (admin.py, worker_save_settings).  The stored      *)
(* configuration is a map from dotted key to an optional value; the        *)
(* request carries each form field as an optional value, None when the     *)
(* field is absent.  A tag list in text form is the sequence of its        *)
(* comma-separated pieces.                                                 *)
(***************************************************************************)
SettingsRequests ==
    [admin_username : {None, Some("root")},
     admin_password : {None, Some(""), Some("pw")},
     image_cache_max_size_mb : {None, Some(512)},
     api_key : {None, Some("k1")},
     filtered_tags : {None, Some(<<"a", " ">>)},
     max_retry : {None, Some(2)}]

StoredTags == {None, Some(<<"xaiartifact">>)}

\* get_config(key, default): the stored value, or the default
get_config(store, key, default) ==
    IF IsNone(store[key]) THEN default ELSE The(store[key])

\* _split_tags: the empty list for a missing or empty value, else the
\* stripped non-empty pieces
_split_tags(value) ==
    IF IsNone(value) \/ The(value) = <<>> THEN <<>> ELSE Stripped(The(value))

\* update_cfg as the handler builds it, flattened to dotted keys, before
\* pruning: None marks a None value
update_cfg(store, req) ==
    [k \in ConfKeys |->
        CASE k = "app.admin_username" -> req.admin_username
          [] k = "app.app_key" ->
                IF ~IsNone(req.admin_password) /\ The(req.admin_password) # ""
                THEN req.admin_password
                ELSE Some(get_config(store, "app.app_key", ""))
          [] k = "app.api_key" -> req.api_key
          [] k = "cache.limit_mb" -> req.image_cache_max_size_mb
          [] k = "grok.filter_tags" -> Some(_split_tags(req.filtered_tags))
          [] k = "grok.max_retry" -> req.max_retry]

\* _prune_none: the keys whose value is not None
_prune_none(obj) == {k \in DOMAIN obj : ~IsNone(obj[k])}

\* config.update: every key of the update replaces the stored value, the
\* other keys keep theirs
ConfigUpdate(store, upd) ==
    [k \in ConfKeys |-> IF k \in _prune_none(upd) THEN upd[k] ELSE store[k]]

InitSettings ==
    /\ RetryIdle
    /\ bk = <<>>
    /\ RegistryIdle
    /\ PoolIdle
    /\ slock = None
    /\ au = AuthIdle
    /\ bulk = BulkIdle
    /\ mw = MwIdle
    /\ \E tags \in StoredTags :
          conf = [store |-> [ConfIdle.store EXCEPT !["grok.filter_tags"] = tags],
                  req |-> None]

\* POST /api/settings
WorkerSaveSettings ==
    /\ \E req \in SettingsRequests :
          conf' = [store |-> ConfigUpdate(conf.store, update_cfg(conf.store, req)),
                   req |-> Some(req)]
    /\ UNCHANGED <<retryVars, bk, regVars, poolVars, slock, au, bulk, mw>>

NextSettings == WorkerSaveSettings

SpecSettings == InitSettings /\ [][NextSettings]_vars

\* the form field that carries a configuration key
FieldOf(k) ==
    CASE k = "app.admin_username" -> "admin_username"
      [] k = "app.app_key" -> "admin_password"
      [] k = "app.api_key" -> "api_key"
      [] k = "cache.limit_mb" -> "image_cache_max_size_mb"
      [] k = "grok.filter_tags" -> "filtered_tags"
      [] k = "grok.max_retry" -> "max_retry"

\* the value a reader of the configuration gets for a key
Effective(store, k) ==
    CASE k = "app.app_key" -> Some(get_config(store, k, ""))
      [] k = "grok.filter_tags" -> Some(get_config(store, k, <<>>))
      [] OTHER -> store[k]

C24_Step ==
    (conf' # conf) =>
        \A k \in ConfKeys :
            IsNone(The(conf'.req)[FieldOf(k)])
               => Effective(conf'.store, k) = Effective(conf.store, k)

\* C24: a settings request leaves every configuration key whose field is
\* absent from the request at its stored value.
C24_AbsentFieldsKept == [][C24_Step]_vars

(***************************************************************************)
(* Further claims about the retry executor.                                *)
(***************************************************************************)
\* C25: whatever max_retry is, a call of retry_on_status that has ended has
\* invoked the operation at least once, and when it ended by returning, it
\* returned the value the operation returned.
C25_RunsAtLeastOnce ==
    Terminated =>
        /\ calls >= 1
        /\ (pc # "raised" => pc = "returned" /\ result = Some("value"))

(***************************************************************************)
(* The response middleware (response_middleware.py,                        *)
(* ResponseLoggerMiddleware.dispatch).  A path is the sequence of its     *)
(* segments: "/v1/chat/completions" is <<"v1", "chat", "completions">>.    *)
(* request_stats and request_logger are the sequences of the entries       *)
(* recorded for the request in progress; a recording call that raises      *)
(* records nothing.                                                        *)
(***************************************************************************)
Methods == {"GET", "POST", "PUT", "PATCH"}

Paths ==
    {<<"v1", "chat", "completions">>, <<"v1", "images", "generations">>,
     <<"v1">>, <<"v1beta", "chat">>, <<"api", "v1", "tokens">>}

HandlerStatuses == {200, 400, 500}

\* request.method in {"POST", "PUT", "PATCH"} and path.startswith("/v1/")
should_track(method, path) ==
    /\ method \in {"POST", "PUT", "PATCH"}
    /\ Len(path) >= 2
    /\ path[1] = "v1"

\* the status the branch records: the response's, or 500 in the except
\* clause
RecordedStatus(m) == IF m.branch = "try" THEN m.status ELSE 500

\* an exception inside the try block enters the except clause, one inside
\* the except clause leaves dispatch
MwFails(m) ==
    IF m.branch = "try"
    THEN [m EXCEPT !.branch = "except",
                   !.pc = IF should_track(m.method, m.path) THEN "stats" ELSE "done",
                   !.out = IF should_track(m.method, m.path) THEN "" ELSE "raised"]
    ELSE [m EXCEPT !.pc = "done", !.out = "raised"]

InitMw ==
    /\ RetryIdle
    /\ bk = <<>>
    /\ RegistryIdle
    /\ PoolIdle
    /\ slock = None
    /\ au = AuthIdle
    /\ bulk = BulkIdle
    /\ conf = ConfIdle
    /\ mw = MwIdle

MwFrame == UNCHANGED <<retryVars, bk, regVars, poolVars, slock, au, bulk, conf>>

\* a request enters dispatch, call_next is awaited
Dispatch ==
    /\ mw.pc \in {"idle", "done"}
    /\ \E method \in Methods, path \in Paths :
          mw' = [MwIdle EXCEPT !.pc = "handler", !.method = method, !.path = path,
                               !.branch = "try"]
    /\ MwFrame

\* call_next returns a response
HandlerReturns ==
    /\ mw.pc = "handler"
    /\ \E status \in HandlerStatuses :
          mw' = IF should_track(mw.method, mw.path)
                THEN [mw EXCEPT !.status = status, !.pc = "stats"]
                ELSE [mw EXCEPT !.status = status, !.pc = "done", !.out = "response"]
    /\ MwFrame

\* call_next raises
HandlerRaises ==
    /\ mw.pc = "handler"
    /\ mw' = MwFails(mw)
    /\ MwFrame

\* request_stats.record_request returns
RecordRequestReturns ==
    /\ mw.pc = "stats"
    /\ mw' = [mw EXCEPT !.stats = Append(@, [success |-> RecordedStatus(mw) < 400
                                                          /\ mw.branch = "try"]),
                        !.pc = "log"]
    /\ MwFrame

\* request_stats.record_request raises
RecordRequestRaises ==
    /\ mw.pc = "stats"
    /\ mw' = MwFails(mw)
    /\ MwFrame

\* request_logger.add_log returns: the response is returned, or the
\* handler's exception raised again
AddLogReturns ==
    /\ mw.pc = "log"
    /\ mw' = [mw EXCEPT !.logs = Append(@, [status |-> RecordedStatus(mw)]),
                        !.pc = "done",
                        !.out = IF mw.branch = "try" THEN "response" ELSE "raised"]
    /\ MwFrame

\* request_logger.add_log raises
AddLogRaises ==
    /\ mw.pc = "log"
    /\ mw' = MwFails(mw)
    /\ MwFrame

NextMw ==
    \/ Dispatch
    \/ HandlerReturns
    \/ HandlerRaises
    \/ RecordRequestReturns
    \/ RecordRequestRaises
    \/ AddLogReturns
    \/ AddLogRaises

SpecMw == InitMw /\ [][NextMw]_vars

\* C26: when dispatch has ended for a tracked request, exactly one
\* statistics entry and exactly one request log entry were recorded for it,
\* whatever the handler and the recording calls did.
C26_RecordedOnce ==
    (mw.pc = "done" /\ should_track(mw.method, mw.path)) =>
        Len(mw.stats) = 1 /\ Len(mw.logs) = 1

(***************************************************************************)
(* Further claims about the bulk administrative handlers.                  *)
(***************************************************************************)
\* C27: a token refresh or an online cache clear that was given no usable
\* token, and raised HTTPException(400) for it, is answered with status 400.
C27_ClientErrorKept == (bulk.pc = "done" /\ bulk.raised = 400) => bulk.resp = 400

(***************************************************************************)
(* The token test handler (admin.py, worker_test_token).  A request token  *)
(* is the sequence of its pieces, so that "sso=T1" is <<"sso=", "T1">>;    *)
(* the labels of _token_status_label are written "invalid" (shi xiao),     *)
(* "cooling" (leng que zhong), "disabled" (jin yong) and "normal"          *)
(* (zheng chang).                                                          *)
(***************************************************************************)
TestTokens == {<<>>, <<"sso=">>, <<"T1">>, <<"sso=", "T1">>, <<"T2">>, <<"sso=", "T2">>}

TestStates ==
    {<<st, qu>> \in {"ACTIVE", "COOLING", "EXPIRED", "DISABLED"} \X {-1, 0, 3} : TRUE}
        \cup {<<"EXHAUSTED", 0>>}

\* the pools the handler may find: empty, or T1 in one pool in any state
TestSnapshots ==
    {EmptyPools} \cup
    { [p \in Pools |-> IF p = q0 THEN <<Loaded("T1", x[1], x[2], x[1] # "ACTIVE")>> ELSE <<>>] :
        q0 \in Pools, x \in TestStates }

\* token.replace("sso=", "")
RawToken(token) ==
    LET s == SelectSeq(token, LAMBDA piece : piece # "sso=")
    IN  IF s = <<>> THEN "" ELSE s[1]

_token_status_label(status) ==
    CASE status = "EXPIRED" -> "invalid"
      [] status = "COOLING" -> "cooling"
      [] status = "DISABLED" -> "disabled"
      [] OTHER -> "normal"

\* the answer of worker_test_token: 400 for a missing token, else valid
\* or not, with the error type
worker_test_token(P, token) ==
    LET raw == RawToken(token) IN
    IF token = <<>> THEN [status |-> 400, valid |-> FALSE, error_type |-> "Missing token"]
    ELSE IF ~Exists(P, raw) THEN [status |-> 200, valid |-> FALSE, error_type |-> "expired"]
    ELSE LET info == Lookup(P, raw)
             status_label == _token_status_label(info.status)
         IN  IF status_label = "invalid"
             THEN [status |-> 200, valid |-> FALSE, error_type |-> "expired"]
             ELSE IF status_label = "cooling"
             THEN [status |-> 200, valid |-> FALSE, error_type |-> "cooldown"]
             ELSE IF info.quota = 0
             THEN [status |-> 200, valid |-> FALSE, error_type |-> "exhausted"]
             ELSE [status |-> 200, valid |-> TRUE, error_type |-> ""]

InitTest ==
    /\ pools \in TestSnapshots
    /\ snapshot = pools
    /\ lock = None
    /\ tasks = [t \in Tasks |-> IdleTask]
    /\ ret = NoRet
    /\ rt = RouterIdle
    /\ now = 0
    /\ RetryIdle
    /\ bk = <<>>
    /\ RegistryIdle
    /\ AdminIdle

\* POST /api/tokens/test
WorkerTestToken ==
    /\ \E token \in TestTokens :
          LET a == worker_test_token(pools, token)
          IN  ret' = [NoRet EXCEPT !.op = "test", !.tok = RawToken(token),
                                   !.outcome = a.error_type,
                                   !.result = IF a.status = 400 THEN "400"
                                              ELSE IF a.valid THEN "valid" ELSE "invalid"]
    /\ UNCHANGED <<pools, snapshot, lock, tasks, rt, now, retryVars, bk, regVars, admVars>>

NextTest == WorkerTestToken

SpecTest == InitTest /\ [][NextTest]_vars

\* C28: the token test answers valid only for a stored credential that
\* select would accept (status ACTIVE); a stored credential that is
\* DISABLED, EXPIRED, COOLING or EXHAUSTED, and a token that is not stored,
\* gets valid = false.
C28_ValidOnlyIfSelectable ==
    (ret.op = "test" /\ ret.result = "valid") =>
        Exists(pools, ret.tok) /\ Qualifies(Lookup(pools, ret.tok), {})

(***************************************************************************)
(* Further claims about the model registry.                                *)
(***************************************************************************)
\* C29: for every identifier and every registry the service can load,
\* normalize is idempotent, get gives the same answer for an identifier and
\* for its normal form, and valid holds exactly when get finds a model.
C29_NormalizeClosed ==
    ~IsNone(q) =>
        LET c == The(q) IN
        /\ c.op = "normalize" => normalize(reg, c.out) = c.out
        /\ c.op = "get" => c.out = get(reg, normalize(reg, c.id))
        /\ c.op = "valid" => (c.out <=> ~IsNone(get(reg, c.id)))

(***************************************************************************)
(* The login handler (admin.py, worker_admin_login).  The configuration    *)
(* is the stored map of the settings handler; keys is the list of the key  *)
(* manager.  The last request and its answer are kept in conf.req.         *)
(***************************************************************************)
LoginNames == {None, Some(""), Some(" "), Some("admin"), Some("root"), Some("eve")}
LoginPasswords == {None, Some(""), Some("pw"), Some("bad")}

LoginStores ==
    { [ConfIdle.store EXCEPT !["app.admin_username"] = u, !["app.app_key"] = k,
                             !["app.api_key"] = a] :
        u \in {None, Some(""), Some("root")},
        k \in {None, Some(""), Some("pw")},
        a \in {None, Some("k1")} }

LoginKeySets == {{}, {[key |-> "m1", is_active |-> TRUE]}}

\* (x or "").strip()
OrEmptyStripped(x) == IF IsNone(x) THEN "" ELSE strip(The(x))

\* the answer of worker_admin_login
worker_admin_login(store, keys, data) ==
    LET username == OrEmptyStripped(data.username)
        password == OrEmptyStripped(data.password)
        expected_user == OrEmptyStripped(Some(get_config(store, "app.admin_username", "admin")))
        expected_pass == OrEmptyStripped(Some(get_config(store, "app.app_key", "")))
        api_key == get_config(store, "app.api_key", "")
    IN  IF expected_user # "" /\ username # "" /\ username # expected_user
        THEN [success |-> FALSE, token |-> ""]
        ELSE IF expected_pass = "" \/ password # expected_pass
        THEN [success |-> FALSE, token |-> ""]
        ELSE [success |-> TRUE,
              token |-> IF api_key # "" THEN api_key
                        ELSE IF keys # <<>> THEN keys[1].key ELSE ""]

InitLogin ==
    /\ RetryIdle
    /\ bk = <<>>
    /\ RegistryIdle
    /\ PoolIdle
    /\ slock = None
    /\ \E keys \in LoginKeySets : au = [AuthIdle EXCEPT !.keys = keys]
    /\ bulk = BulkIdle
    /\ mw = MwIdle
    /\ \E store \in LoginStores : conf = [store |-> store, req |-> None]

\* the list get_all_keys gives: the keys of the manager, in some order
KeyList(keys) == IF keys = {} THEN <<>> ELSE <<CHOOSE k \in keys : TRUE>>

\* POST /api/login
WorkerAdminLogin ==
    /\ \E username \in LoginNames, password \in LoginPasswords :
          LET data == [username |-> username, password |-> password]
          IN  conf' = [conf EXCEPT !.req =
                          Some([data |-> data,
                                answer |-> worker_admin_login(conf.store, KeyList(get_all_keys(au)), data)])]
    /\ UNCHANGED <<retryVars, bk, regVars, poolVars, slock, au, bulk, mw>>

NextLogin == WorkerAdminLogin

SpecLogin == InitLogin /\ [][NextLogin]_vars

\* the configured administrator name and password, as the handler reads
\* them
ExpectedUser == OrEmptyStripped(Some(get_config(conf.store, "app.admin_username", "admin")))
ExpectedPass == OrEmptyStripped(Some(get_config(conf.store, "app.app_key", "")))

\* C30: a login succeeds only when app_key is configured, the password
\* equals it and the username equals the configured administrator name; a
\* request that omits the username gets the outcome of the same request
\* with a wrong username.
C30_LoginNeedsBoth ==
    ~IsNone(conf.req) =>
        LET r == The(conf.req) IN
        /\ r.answer.success =>
              /\ ExpectedPass # ""
              /\ OrEmptyStripped(r.data.password) = ExpectedPass
              /\ OrEmptyStripped(r.data.username) = ExpectedUser
        /\ IsNone(r.data.username) =>
              \A wrong \in {"eve", "mallory"} \ {ExpectedUser} :
                 worker_admin_login(conf.store, KeyList(get_all_keys(au)),
                                    [r.data EXCEPT !.username = Some(wrong)]).success
                    = r.answer.success

====
